---------------------------- MODULE Spec2Model ----------------------------
(***************************************************************************)
(* Model of the BIDCO retail KPI pipeline (src/pipeline).                  *)
(*                                                                         *)
(* The pipeline is a set of batch functions over an in-memory table.  Each *)
(* component gets its own specification: Init draws the input table from a *)
(* bounded set and one action per function applies it and stores what the  *)
(* function returns.                                                       *)
(*                                                                         *)
(*   SpecPromo    promotions.py   detect_promotions                        *)
(*   SpecOutlier  pricing.py, data_quality.py   the IQR outlier classifiers *)
(*   SpecIndex    price_index.py  build_price_index                        *)
(*                pi_summary.py   run_pricing_pipeline                     *)
(*   SpecAction   pi_summary.py   get_action                               *)
(*   SpecPipeline pi_summary.py   run_pricing_pipeline and its data file   *)
(*   SpecHealth   data_quality.py data_health_pipeline, the health scores  *)
(*   SpecUplift   promo_analysis.py, promo_uplifts.py   the uplifts        *)
(*   SpecStrategy bidco_pricing.py generate_bidco_pricing_strategy         *)
(*   SpecWeek     promotions.py    detect_promotions, the week keys        *)
(*   SpecApi      bidco_kpi_api.py start_bidco_kpi_api and its handlers    *)
(*                                                                         *)
(* Floating point values are modelled as exact rationals: money amounts    *)
(* are integers and a quotient is compared by cross multiplication.        *)
(***************************************************************************)
EXTENDS Integers, Sequences, FiniteSets, TLC

VARIABLES
    df,          \* detect_promotions: the caller's table (a sequence of sale records)
    promo,       \* detect_promotions: min_days -> the table returned for it, or NotRun
    price_df,    \* outlier classifiers: the table of (Item_Code, price) rows
    outliers_df, \* detect_outliers: the Outlier column it returns, or NotRun
    df_item,     \* visualize_price_outliers: item_code -> the Outlier labels, or NotRun
    pi_df,       \* build_price_index: the caller's table
    currency,    \* build_price_index: the currency unit of pi_df (units per KSh)
    price_index, \* build_price_index: currency unit -> the table returned, or NotRun
    final,       \* run_pricing_pipeline: currency unit -> the table returned, or NotRun
    action_row,  \* get_action: the row it is applied to
    status_action, \* get_action: the (Status, Action) it returns, or NotRun
    full_df, \* run_pricing_pipeline: the sales table (bidco_data is its BIDCO rows)
    full_data_path, \* run_pricing_pipeline: what is at full_data_path
    action_df, \* run_pricing_pipeline: the table returned from there, or NotRun
    store_health, \* data_health_pipeline: the per-store counts of the table
    health_report, \* data_health_pipeline: the scores it returns, or NotRun
    promo_df, \* uplift functions: the caller's table with its On_Promo column
    promo_analysis, \* calculate_bidco_store_section_uplift: the table returned, or NotRun
    section_units_sorted, \* calculate_bidco_promo_uplift: the table returned (and handed to visualize_bidco_promo_uplift), or NotRun
    store_summary, \* generate_bidco_pricing_strategy: the caller's store_summary table
    strategy, \* generate_bidco_pricing_strategy: the outcome of the call, or NotRun
    week_df, \* detect_promotions: a caller's table of one item sold at a discount on two days
    week_promo, \* detect_promotions: the table returned for week_df, or NotRun
    kpi_bidco_data, \* start_bidco_kpi_api: the caller's bidco_data table
    kpi_df_original, \* start_bidco_kpi_api: the df_original argument
    kpi_app, \* start_bidco_kpi_api: how far the call is and the values its handlers close over
    kpi_responses \* the /kpis and /kpis/json requests served so far, with the JSON bodies sent

promoVars == <<df, promo>>
outlierVars == <<price_df, outliers_df, df_item>>
indexVars == <<pi_df, currency, price_index, final>>
actionVars == <<action_row, status_action>>
pipelineVars == <<full_df, full_data_path, action_df>>
healthVars == <<store_health, health_report>>
upliftVars == <<promo_df, promo_analysis, section_units_sorted>>
strategyVars == <<store_summary, strategy>>
weekVars == <<week_df, week_promo>>
apiVars == <<kpi_bidco_data, kpi_df_original, kpi_app, kpi_responses>>
vars == <<promoVars, outlierVars, indexVars, actionVars, pipelineVars, healthVars, upliftVars, strategyVars, weekVars, apiVars>>

\* What the calls of one component leave alone: the other components.
exceptPromo == <<outlierVars, indexVars, actionVars, pipelineVars, healthVars, upliftVars, strategyVars, weekVars, apiVars>>
exceptOutlier == <<promoVars, indexVars, actionVars, pipelineVars, healthVars, upliftVars, strategyVars, weekVars, apiVars>>
exceptIndex == <<promoVars, outlierVars, actionVars, pipelineVars, healthVars, upliftVars, strategyVars, weekVars, apiVars>>
exceptAction == <<promoVars, outlierVars, indexVars, pipelineVars, healthVars, upliftVars, strategyVars, weekVars, apiVars>>
exceptPipeline == <<promoVars, outlierVars, indexVars, actionVars, healthVars, upliftVars, strategyVars, weekVars, apiVars>>
exceptHealth == <<promoVars, outlierVars, indexVars, actionVars, pipelineVars, upliftVars, strategyVars, weekVars, apiVars>>
exceptUplift == <<promoVars, outlierVars, indexVars, actionVars, pipelineVars, healthVars, strategyVars, weekVars, apiVars>>
exceptStrategy == <<promoVars, outlierVars, indexVars, actionVars, pipelineVars, healthVars, upliftVars, weekVars, apiVars>>
exceptWeek == <<promoVars, outlierVars, indexVars, actionVars, pipelineVars, healthVars, upliftVars, strategyVars, apiVars>>
exceptApi == <<promoVars, outlierVars, indexVars, actionVars, pipelineVars, healthVars, upliftVars, strategyVars, weekVars>>

\* A call that has not been made yet.
NotRun == [ran |-> FALSE, table |-> <<>>]

Range(s) == {s[i] : i \in DOMAIN s}

\* A float is modelled as the exact fraction <<numerator, denominator>> with
\* a positive denominator; fractions are compared by cross multiplication.
\* NaN is <<0, 0>>: every comparison with it is false and it propagates
\* through the arithmetic, as a float NaN does.  <<n, 0>> with n > 0 is
\* +inf and with n < 0 is -inf, what a float division x / 0 gives.
NaN == <<0, 0>>
RLess(a, b) ==
    /\ a # NaN /\ b # NaN
    /\ IF a[2] = 0 /\ b[2] = 0 THEN a[1] < 0 /\ b[1] > 0
       ELSE a[1] * b[2] < b[1] * a[2]
RLeq(a, b) ==
    /\ a # NaN /\ b # NaN
    /\ IF a[2] = 0 /\ b[2] = 0 THEN a[1] < 0 \/ b[1] > 0
       ELSE a[1] * b[2] <= b[1] * a[2]
RSub(a, b) == <<a[1] * b[2] - b[1] * a[2], a[2] * b[2]>>
RAdd(a, b) == <<a[1] * b[2] + b[1] * a[2], a[2] * b[2]>>
RMul(a, b) == <<a[1] * b[1], a[2] * b[2]>>
REq(a, b) == a[2] # 0 /\ b[2] # 0 /\ a[1] * b[2] = b[1] * a[2]
IsNaN(a) == a[1] = 0 /\ a[2] = 0
\* a / b; the denominator is kept >= 0.
RDiv(a, b) ==
    IF b[1] < 0 THEN <<(0 - a[1]) * b[2], a[2] * (0 - b[1])>>
    ELSE <<a[1] * b[2], a[2] * b[1]>>

RECURSIVE Gcd(_, _)
Gcd(m, n) == IF n = 0 THEN m ELSE Gcd(n, m % n)

\* The same float as a fraction in lowest terms (a representation only).
RNorm(a) ==
    IF a[2] = 0 THEN a
    ELSE LET g == Gcd(IF a[1] < 0 THEN 0 - a[1] ELSE a[1], a[2])
         IN  <<a[1] \div g, a[2] \div g>>

\* round(x, d) with 10^d = scale: the nearest multiple of 1/scale, a tie going
\* to the even one, as <<n, scale>>; NaN and the infinities stay.
RRound(a, scale) ==
    IF a[2] = 0 THEN a
    ELSE LET q == (a[1] * scale) \div a[2]
             r == (a[1] * scale) % a[2]
         IN  <<IF 2 * r < a[2] THEN q
               ELSE IF 2 * r > a[2] THEN q + 1
               ELSE IF q % 2 = 0 THEN q ELSE q + 1,
               scale>>

RECURSIVE RSum(_)
\* Series.sum() (skipna=True): the sum of the values that are not NaN.
RSum(series) ==
    IF series = <<>> THEN <<0, 1>>
    ELSE IF IsNaN(series[1]) THEN RSum(Tail(series))
    ELSE RAdd(series[1], RSum(Tail(series)))

\* Series.mean() (skipna=True): over the values that are not NaN; NaN when
\* there is none.
RMean(series) ==
    LET NotNaN(a) == ~IsNaN(a)
        present == SelectSeq(series, NotNaN)
    IN  IF present = <<>> THEN NaN
        ELSE RMul(RSum(present), <<1, Len(present)>>)

(***************************************************************************)
(* Bounded input domains                                                   *)
(***************************************************************************)
\* Most rows of an enumerated input table.
MaxRows == 3
\* Largest min_days a call is made with.
MaxMinDays == 2

SeqsUpTo(S, n) == UNION {[1..k -> S] : k \in 0..n}

ItemCodes == {1, 2}

\* A component that is not under check holds no table and has made no call.
IdlePromo == df = <<>> /\ promo = [m \in 1..MaxMinDays |-> NotRun]
IdleOutlier ==
    /\ price_df = <<>>
    /\ outliers_df = NotRun
    /\ df_item = [c \in ItemCodes |-> NotRun]
\* The currency units a table is expressed in: KSh, and cents (100 per KSh).
CurrencyUnits == {1, 100}
IdleIndex ==
    /\ pi_df = <<>>
    /\ currency = 1
    /\ price_index = [u \in CurrencyUnits |-> NotRun]
    /\ final = [u \in CurrencyUnits |-> NotRun]
IdleAction == action_row = <<>> /\ status_action = NotRun
IdlePipeline == full_df = <<>> /\ full_data_path = "csv" /\ action_df = NotRun
IdleHealth == store_health = <<>> /\ health_report = NotRun
IdleUplift == promo_df = <<>> /\ promo_analysis = NotRun /\ section_units_sorted = NotRun
IdleStrategy == store_summary = <<>> /\ strategy = NotRun
IdleWeek == week_df = <<>> /\ week_promo = NotRun
IdleApi ==
    /\ kpi_bidco_data = <<>>
    /\ kpi_df_original = [kind |-> "None", comp |-> <<>>]
    /\ kpi_app = NotRun
    /\ kpi_responses = <<>>

IdleExceptPromo == IdleOutlier /\ IdleIndex /\ IdleAction /\ IdlePipeline /\ IdleHealth /\ IdleUplift /\ IdleStrategy /\ IdleWeek /\ IdleApi
IdleExceptOutlier == IdlePromo /\ IdleIndex /\ IdleAction /\ IdlePipeline /\ IdleHealth /\ IdleUplift /\ IdleStrategy /\ IdleWeek /\ IdleApi
IdleExceptIndex == IdlePromo /\ IdleOutlier /\ IdleAction /\ IdlePipeline /\ IdleHealth /\ IdleUplift /\ IdleStrategy /\ IdleWeek /\ IdleApi
IdleExceptAction == IdlePromo /\ IdleOutlier /\ IdleIndex /\ IdlePipeline /\ IdleHealth /\ IdleUplift /\ IdleStrategy /\ IdleWeek /\ IdleApi
IdleExceptPipeline == IdlePromo /\ IdleOutlier /\ IdleIndex /\ IdleAction /\ IdleHealth /\ IdleUplift /\ IdleStrategy /\ IdleWeek /\ IdleApi
IdleExceptHealth == IdlePromo /\ IdleOutlier /\ IdleIndex /\ IdleAction /\ IdlePipeline /\ IdleUplift /\ IdleStrategy /\ IdleWeek /\ IdleApi
IdleExceptUplift == IdlePromo /\ IdleOutlier /\ IdleIndex /\ IdleAction /\ IdlePipeline /\ IdleHealth /\ IdleStrategy /\ IdleWeek /\ IdleApi
IdleExceptStrategy == IdlePromo /\ IdleOutlier /\ IdleIndex /\ IdleAction /\ IdlePipeline /\ IdleHealth /\ IdleUplift /\ IdleWeek /\ IdleApi
IdleExceptWeek == IdlePromo /\ IdleOutlier /\ IdleIndex /\ IdleAction /\ IdlePipeline /\ IdleHealth /\ IdleUplift /\ IdleStrategy /\ IdleApi
IdleExceptApi == IdlePromo /\ IdleOutlier /\ IdleIndex /\ IdleAction /\ IdlePipeline /\ IdleHealth /\ IdleUplift /\ IdleStrategy /\ IdleWeek

\* A calendar date as pandas sees it after pd.to_datetime: the year, the day
\* of the year (0-based, tm_yday - 1) and the weekday (0 = Sunday, as %U and
\* %w count).  Day d counts from Saturday 28 December 2024.
MkDate(d) ==
    IF d <= 3
    THEN [year |-> 2024, yday |-> 362 + d, wday |-> (6 + d) % 7]
    ELSE [year |-> 2025, yday |-> d - 4, wday |-> (6 + d) % 7]

\* Sat 28 Dec, Sun 29 Dec, Mon 30 Dec 2024: one day of week 51, two of week 52.
Dates == {MkDate(d) : d \in 0..2}
\* Sun 5 Jan 2025 .. Sat 11 Jan 2025: one whole Sunday-to-Saturday week.
ScenarioWeek == [k \in 1..7 |-> MkDate(7 + k)]

Item(code) == [Item_Code |-> code, Description |-> <<"item", code>>]
Items == {Item(1), Item(2)}
Stores == {"S1", "S2"}
\* Which store sells which item: item 1 is sold by both stores, item 2 by S1.
Listings == {<<Item(1), "S1">>, <<Item(1), "S2">>, <<Item(2), "S1">>}

\* <<Total Sales, Quantity, RRP>>: no discount, a discount of exactly 10%.
PricePoints == {<<100, 1, 100>>, <<90, 1, 100>>}
\* 15% off: two units sold for 170 at an RRP of 100.
Discounted15 == <<170, 2, 100>>
FullPrice == <<100, 1, 100>>

SaleRecord(item, store, date, p) ==
    [Item_Code   |-> item.Item_Code,
     Description |-> item.Description,
     Store       |-> store,
     Date        |-> date,
     TotalSales  |-> p[1],
     Quantity    |-> p[2],
     RRP         |-> p[3]]

SaleRecords ==
    {SaleRecord(l[1], l[2], dt, p) : l \in Listings, dt \in Dates, p \in PricePoints}

\* The scenario table: 10 items, one store, every day of one week; items 1
\* and 2 are sold 15% off on the first 3 days, everything else at full price.
ScenarioRow(n) ==
    LET code == ((n - 1) \div 7) + 1
        day  == ((n - 1) % 7) + 1
    IN  SaleRecord(Item(code), "S1", ScenarioWeek[day],
                   IF code <= 2 /\ day <= 3 THEN Discounted15 ELSE FullPrice)

ScenarioTable == [n \in 1..70 |-> ScenarioRow(n)]

InputTables == SeqsUpTo(SaleRecords, MaxRows) \cup {ScenarioTable}

(***************************************************************************)
(* pricing.py, data_quality.py: the IQR outlier classifiers                *)
(***************************************************************************)
\* Most rows of an enumerated price table.
MaxPriceRows == 4

\* The classified column: the RRP (data_quality.py) or the unit price
\* (pricing.py) of a row, a money amount.
Prices == {2, 10, 12, 20}

PriceRow(code, price) == [Item_Code |-> code, Price |-> price]
PriceRows == {PriceRow(c, v) : c \in ItemCodes, v \in Prices}

\* One item with the unit prices [10, 10, 10, 10, 100].
DegenerateGroup ==
    <<PriceRow(1, 10), PriceRow(1, 10), PriceRow(1, 10), PriceRow(1, 10), PriceRow(1, 100)>>

PriceTables == SeqsUpTo(PriceRows, MaxPriceRows) \cup {DegenerateGroup}

\* The Price column of the rows of one item, in table order: the series a
\* groupby('Item_Code') group, or the filter df['Item_Code'] == item_code, holds.
GroupSeries(t, code) ==
    LET OfItem(r) == r.Item_Code = code
        rows == SelectSeq(t, OfItem)
    IN  [k \in DOMAIN rows |-> rows[k].Price]

AsGiven(series) == series

\* The values in ascending order.
Sorted(series) ==
    LET Before(a, b) == a < b
    IN  SortSeq(series, Before)

\* Series.quantile(k/4) with the default interpolation='linear': on the
\* sorted values, at position (n-1)*k/4 between the neighbours lo and lo+1;
\* NaN for an empty series.
quantile(series, k) ==
    LET n == Len(series)
        s == Sorted(series)
        pos4 == (n - 1) * k
        lo == (pos4 \div 4) + 1
        hi == IF lo < n THEN lo + 1 ELSE lo
    IN  IF n = 0 THEN NaN
        ELSE RAdd(<<s[lo], 1>>, RMul(<<pos4 % 4, 4>>, <<s[hi] - s[lo], 1>>))

IQRFloored(Q1, Q3) == IF RLess(Q1, Q3) THEN RSub(Q3, Q1) ELSE <<1, 1>>

\* IQR = Q3 - Q1
IQR(Q1, Q3) == RSub(Q3, Q1)

LowerBoundHalfIQR(Q1, Q3) == RSub(Q1, RMul(<<1, 2>>, IQR(Q1, Q3)))

\* lower = Q1 - 1.5 * IQR
lower_bound(Q1, Q3) == RSub(Q1, RMul(<<3, 2>>, IQR(Q1, Q3)))

\* upper = Q3 + 1.5 * IQR
upper_bound(Q1, Q3) == RAdd(Q3, RMul(<<3, 2>>, IQR(Q1, Q3)))

IsOutlierInclusive(x, lower, upper) == RLeq(<<x, 1>>, lower) \/ RLeq(upper, <<x, 1>>)

\* g['Outlier'] = (g['RRP'] < lower) | (g['RRP'] > upper)
IsOutlier(x, lower, upper) == RLess(<<x, 1>>, lower) \/ RLess(upper, <<x, 1>>)

\* 'Low Price Outlier' if x < lower_bound else ('High Price Outlier' if x >
\* upper_bound else 'Normal')
classify(x, lower, upper) ==
    IF RLess(<<x, 1>>, lower) THEN "Low Price Outlier"
    ELSE IF RLess(upper, <<x, 1>>) THEN "High Price Outlier"
    ELSE "Normal"

\* detect_outliers(g) under groupby('Item_Code', group_keys=False).apply: the
\* Outlier column, each row classified against the bounds of its own group.
DetectOutliersColumn(t) ==
    [i \in DOMAIN t |->
        LET g  == GroupSeries(t, t[i].Item_Code)
            Q1 == quantile(g, 1)
            Q3 == quantile(g, 3)
        IN  IsOutlier(t[i].Price, lower_bound(Q1, Q3), upper_bound(Q1, Q3))]

\* visualize_price_outliers(df, item_code): the Outlier labels of the rows of
\* the item, in order (no row when the item is not in the table).
PriceOutlierLabels(t, code) ==
    LET g  == GroupSeries(t, code)
        Q1 == quantile(g, 1)
        Q3 == quantile(g, 3)
    IN  [k \in DOMAIN g |-> classify(g[k], lower_bound(Q1, Q3), upper_bound(Q1, Q3))]

InitOutlier ==
    /\ price_df \in PriceTables
    /\ outliers_df = NotRun
    /\ df_item = [c \in ItemCodes |-> NotRun]
    /\ IdleExceptOutlier

\* data_health_pipeline.detect_outliers, plot_rrp_outliers_by_supplier.
\* detect_outliers and plot_supplier_price_outliers.detect_supplier_outliers,
\* applied to every Item_Code group of the table.
detect_outliers ==
    /\ ~outliers_df.ran
    /\ outliers_df' = [ran |-> TRUE, table |-> DetectOutliersColumn(price_df)]
    /\ UNCHANGED <<price_df, df_item, exceptOutlier>>

\* visualize_price_outliers(df, item_code) and the classify step of
\* visualize_supplier_price_extremes_by_item_code.
visualize_price_outliers(item_code) ==
    /\ ~df_item[item_code].ran
    /\ df_item' = [df_item EXCEPT
                      ![item_code] = [ran |-> TRUE, table |-> PriceOutlierLabels(price_df, item_code)]]
    /\ UNCHANGED <<price_df, outliers_df, exceptOutlier>>

NextOutlier ==
    \/ detect_outliers
    \/ \E c \in ItemCodes : visualize_price_outliers(c)

SpecOutlier == InitOutlier /\ [][NextOutlier]_vars

(***************************************************************************)
(* promotions.py: detect_promotions                                        *)
(***************************************************************************)
\* discount_threshold = 0.10, as a percentage.
DiscountThresholdPct == 10
\* min_days = 2
DefaultMinDays == 2

YearWeekMondayFirst(date) == <<date.year, (date.yday + 7 - ((date.wday + 6) % 7)) \div 7>>

\* df['Date Of Sale'].dt.strftime('%Y-%U'): the year and the week of the year
\* with Sunday as the first day of the week; the days before the year's first
\* Sunday are week 0.
Year_Week(date) == <<date.year, (date.yday + 7 - date.wday) \div 7>>

\* df['Unit_Price'] = df['Total Sales'] / df['Quantity']    (Quantity > 0)
Unit_Price(r) == <<r.TotalSales, r.Quantity>>

\* df['Discount_Pct'] = (df['RRP'] - df['Unit_Price']) / df['RRP']    (RRP > 0)
Discount_Pct(r) ==
    LET up == Unit_Price(r)
    IN  <<r.RRP * up[2] - up[1], up[2] * r.RRP>>

IsPromoDayStrict(r) == RLess(<<DiscountThresholdPct, 100>>, Discount_Pct(r))

\* df['Is_Promo_Day'] = df['Discount_Pct'] >= discount_threshold
Is_Promo_Day(r) == RLeq(<<DiscountThresholdPct, 100>>, Discount_Pct(r))

SameGroupWeekOnly(r, s) == Year_Week(r.Date) = Year_Week(s.Date)

\* groupby(['Item_Code', 'Description', 'Year_Week'])
SameGroup(r, s) ==
    /\ r.Item_Code = s.Item_Code
    /\ r.Description = s.Description
    /\ Year_Week(r.Date) = Year_Week(s.Date)

\* ['Is_Promo_Day'].transform('sum'): for row i, the number of rows of its
\* group whose Is_Promo_Day is true.
promo_days(t, i) ==
    Cardinality({j \in DOMAIN t : SameGroup(t[i], t[j]) /\ Is_Promo_Day(t[j])})

OnPromoExactly(count, min_days) == count = min_days

\* df['On_Promo'] = promo_days >= min_days
On_Promo(count, min_days) == count >= min_days

\* The table detect_promotions returns: the rows of its copy, in order, with
\* the added columns (the input columns are carried over unchanged; the
\* Is_Promo_Day column is dropped again).
DetectPromotionsTable(t, min_days) ==
    [i \in DOMAIN t |->
        [Unit_Price   |-> Unit_Price(t[i]),
         Discount_Pct |-> Discount_Pct(t[i]),
         Year_Week    |-> Year_Week(t[i].Date),
         On_Promo     |-> On_Promo(promo_days(t, i), min_days)]]

InitPromo ==
    /\ df \in InputTables
    /\ promo = [m \in 1..MaxMinDays |-> NotRun]
    /\ IdleExceptPromo

\* One call detect_promotions(df, min_days = m) on the caller's table.  The
\* caller sweeps min_days upwards: the function keeps no state between calls,
\* so the order of the calls plays no role in what each returns.
detect_promotions(m) ==
    /\ ~promo[m].ran
    /\ \A n \in 1..(m - 1) : promo[n].ran
    /\ promo' = [promo EXCEPT ![m] = [ran |-> TRUE, table |-> DetectPromotionsTable(df, m)]]
    /\ UNCHANGED <<df, exceptPromo>>

NextPromo == \E m \in 1..MaxMinDays : detect_promotions(m)

SpecPromo == InitPromo /\ [][NextPromo]_vars

(***************************************************************************)
(* promotions.py: detect_promotions over the turn of the year              *)
(***************************************************************************)
\* The last day of the tables below, counted from Saturday 28 December
\* 2024: Saturday 11 January 2025.
MaxWeekDay == 14

\* One item of one store, sold 15% off on two different days.
WeekTables ==
    {t \in {<<SaleRecord(Item(1), "S1", MkDate(d), Discounted15),
              SaleRecord(Item(1), "S1", MkDate(e), Discounted15)>> :
                d \in 0..MaxWeekDay, e \in 0..MaxWeekDay} :
        t[1].Date # t[2].Date}

InitWeek ==
    /\ week_df \in WeekTables
    /\ week_promo = NotRun
    /\ IdleExceptWeek

\* One call detect_promotions(df) with the default min_days.
detect_promotions_default ==
    /\ ~week_promo.ran
    /\ week_promo' = [ran |-> TRUE, table |-> DetectPromotionsTable(week_df, DefaultMinDays)]
    /\ UNCHANGED <<week_df, exceptWeek>>

NextWeek == detect_promotions_default

SpecWeek == InitWeek /\ [][NextWeek]_vars

(***************************************************************************)
(* price_index.py: build_price_index                                       *)
(***************************************************************************)
\* Most rows of an enumerated table of build_price_index.
MaxIndexRows == 3

\* A supplier name is a sequence of characters, or missing.
Str(chars) == [na |-> FALSE, name |-> chars]
Missing == [na |-> TRUE, name |-> <<>>]
\* target_supplier = "Bidco"
target_supplier == <<"B", "i", "d", "c", "o">>
BidcoAfrica ==
    Str(<<"B", "I", "D", "C", "O", " ", "A", "F", "R", "I", "C", "A", " ",
          "L", "I", "M", "I", "T", "E", "D">>)
Unilever == Str(<<"U", "N", "I", "L", "E", "V", "E", "R">>)
Suppliers == {BidcoAfrica, Unilever, Missing}

\* (Store Name, Sub-Department, Section), listed in sort order.
GroupKeys == <<<<"S1", "FOODS", "OIL">>, <<"S1", "HOME", "SOAP">>>>
\* <<Total Sales, Quantity>>: one unit at 95, two units at 100 each.
Sales == {<<95, 1>>, <<200, 2>>}
ListPrice == <<100, 1>>

\* A row as detect_promotions left it: Unit_Price and Discount_Pct are set.
IndexRow(supplier, key, sale) ==
    [Supplier     |-> supplier,
     Key          |-> key,
     Section      |-> key[3],
     TotalSales   |-> <<sale[1], 1>>,
     Quantity     |-> sale[2],
     RRP          |-> ListPrice,
     Unit_Price   |-> <<sale[1], sale[2]>>,
     Discount_Pct |-> RDiv(RSub(ListPrice, <<sale[1], sale[2]>>), ListPrice)]

IndexRows == {IndexRow(su, k, p) : su \in Suppliers, k \in Range(GroupKeys), p \in Sales}
IndexTables == SeqsUpTo(IndexRows, MaxIndexRows)

\* str.lower() of one character.
Lower(c) ==
    CASE c = "A" -> "a" [] c = "B" -> "b" [] c = "C" -> "c" [] c = "D" -> "d"
      [] c = "E" -> "e" [] c = "F" -> "f" [] c = "I" -> "i" [] c = "L" -> "l"
      [] c = "M" -> "m" [] c = "N" -> "n" [] c = "O" -> "o" [] c = "R" -> "r"
      [] c = "T" -> "t" [] c = "U" -> "u" [] c = "V" -> "v" [] OTHER -> c

LowerSeq(chars) == [k \in DOMAIN chars |-> Lower(chars[k])]

\* Whether pattern occurs in chars as a substring.
Contains(chars, pattern) ==
    \E o \in 0..(Len(chars) - Len(pattern)) :
        \A k \in DOMAIN pattern : chars[o + k] = pattern[k]

\* df['Supplier'].str.contains(target_supplier, case=False, na=False)
mask_target(r) ==
    ~r.Supplier.na /\ Contains(LowerSeq(r.Supplier.name), LowerSeq(target_supplier))

df_target(t) == SelectSeq(t, mask_target)
df_compNamedOnly(t) ==
    LET NamedOther(r) == ~r.Supplier.na /\ ~mask_target(r)
    IN  SelectSeq(t, NamedOther)

df_comp(t) ==
    LET NotTarget(r) == ~mask_target(r)
    IN  SelectSeq(t, NotTarget)

\* The values of column col in the rows of one key, in table order.
KeySeries(t, key, col) ==
    LET OfKey(r) == r.Key = key
        rows == SelectSeq(t, OfKey)
    IN  [k \in DOMAIN rows |-> rows[k][col]]

\* groupby(['Store Name', 'Sub-Department', 'Section']): the keys that occur
\* in t, in sort order.
GroupedKeys(t) ==
    LET Occurs(key) == \E i \in DOMAIN t : t[i].Key = key
    IN  SelectSeq(GroupKeys, Occurs)

\* groupby(keys)['Unit_Price'].mean().reset_index(): one row per key.
AvgPrice(t) ==
    LET keys == GroupedKeys(t)
    IN  [k \in DOMAIN keys |-> [Key |-> keys[k], Avg_Price |-> RMean(KeySeries(t, keys[k], "Unit_Price"))]]

RECURSIVE MergeLeft(_, _)
\* target_avg.merge(comp_avg, on=keys, how='left'): every row of the left
\* table once for each matching row of the right table, and once with a
\* missing Comp_Avg_Price when none matches.
MergeLeft(left, right) ==
    IF left = <<>> THEN <<>>
    ELSE LET l == left[1]
             Matches(r) == r.Key = l.Key
             found == SelectSeq(right, Matches)
             joined == IF found = <<>>
                       THEN <<[Key |-> l.Key, Target_Avg_Price |-> l.Avg_Price, Comp_Avg_Price |-> NaN]>>
                       ELSE [k \in DOMAIN found |->
                                [Key |-> l.Key, Target_Avg_Price |-> l.Avg_Price,
                                 Comp_Avg_Price |-> found[k].Avg_Price]]
         IN  joined \o MergeLeft(Tail(left), right)

PriceGapOf(target_avg, comp_avg) ==
    IF IsNaN(comp_avg) THEN NaN ELSE RRound(RSub(target_avg, comp_avg), 1000)

\* (price_index[f'{target_supplier}_Avg_Price'] / price_index['Comp_Avg_Price']).round(3)
\* (NaN when there is no competitor average).
PriceIndexOf(target_avg, comp_avg) ==
    IF IsNaN(comp_avg) THEN NaN ELSE RRound(RDiv(target_avg, comp_avg), 1000)

KeepAllRows(rows) == rows

\* price_index.dropna(subset=['Comp_Avg_Price'])
DropNaComp(rows) ==
    LET HasComp(r) == ~IsNaN(r.Comp_Avg_Price)
    IN  SelectSeq(rows, HasComp)

\* The table build_price_index returns.
BuildPriceIndexTable(t) ==
    LET merged  == MergeLeft(AvgPrice(df_target(t)), AvgPrice(df_comp(t)))
        indexed == [k \in DOMAIN merged |->
                       [Key              |-> merged[k].Key,
                        Target_Avg_Price |-> merged[k].Target_Avg_Price,
                        Comp_Avg_Price   |-> merged[k].Comp_Avg_Price,
                        Price_Index      |-> PriceIndexOf(merged[k].Target_Avg_Price,
                                                          merged[k].Comp_Avg_Price)]]
        kept    == DropNaComp(indexed)
    IN  \* merge(target_summary, how='left'): target_summary has one row per
        \* key of df_target, so every kept row gets its Avg_RRP and
        \* Avg_Discount_Pct ((mean * 100).round(1)).
        [k \in DOMAIN kept |->
            [Key              |-> kept[k].Key,
             Target_Avg_Price |-> kept[k].Target_Avg_Price,
             Comp_Avg_Price   |-> kept[k].Comp_Avg_Price,
             Price_Index      |-> kept[k].Price_Index,
             Avg_RRP          |-> RMean(KeySeries(df_target(t), kept[k].Key, "RRP")),
             Avg_Discount_Pct |->
                 RRound(RMul(RMean(KeySeries(df_target(t), kept[k].Key, "Discount_Pct")),
                             <<100, 1>>), 10)]]

(***************************************************************************)
(* pi_summary.py: run_pricing_pipeline                                     *)
(***************************************************************************)
\* The caller's bidco_data: df[df['Supplier'] == 'BIDCO AFRICA LIMITED'].
bidco_data(t) ==
    LET IsBidco(r) == r.Supplier = BidcoAfrica
    IN  SelectSeq(t, IsBidco)

\* full_df[~full_df['Supplier'].str.contains('BIDCO', case=False, na=False)]
comp_df(t) ==
    LET NotBidco(r) ==
            ~(~r.Supplier.na /\ Contains(LowerSeq(r.Supplier.name),
                                         LowerSeq(<<"B", "I", "D", "C", "O">>)))
    IN  SelectSeq(t, NotBidco)

RECURSIVE Unique(_)
\* Series.unique(): the distinct values in order of first appearance.
Unique(series) ==
    IF series = <<>> THEN <<>>
    ELSE LET rest == Unique(SubSeq(series, 1, Len(series) - 1))
             last == series[Len(series)]
         IN  IF last \in Range(rest) THEN rest ELSE Append(rest, last)

SectionRows(t, section) ==
    LET InSection(r) == r.Section = section
    IN  SelectSeq(t, InSection)

RECURSIVE SumInt(_)
SumInt(series) == IF series = <<>> THEN 0 ELSE series[1] + SumInt(Tail(series))

Column(t, col) == [k \in DOMAIN t |-> t[k][col]]
\* (t['Total Sales'] / t['Quantity']) * t['Quantity'], and RRP * Quantity.
TimesQuantity(t, col) == [k \in DOMAIN t |-> RMul(t[k][col], <<t[k].Quantity, 1>>)]

\* int(x): towards zero (x finite; int() raises on NaN and the infinities).
IntOf(a) ==
    IF a[2] = 0 THEN 0
    ELSE IF a[1] >= 0 THEN a[1] \div a[2]
    ELSE 0 - ((0 - a[1]) \div a[2])

NoClamp(a) == a

\* max(0, x): x when x > 0 and otherwise 0, so 0 for a NaN.
Max0(a) == IF RLess(<<0, 1>>, a) THEN a ELSE <<0, 1>>

SectionPriceIndexUnrounded(current_price, comp_price) ==
    IF RLess(<<0, 1>>, comp_price)
    THEN RDiv(current_price, comp_price)
    ELSE NaN

\* round(current_price / comp_price, 3) if comp_price > 0 else np.nan
SectionPriceIndex(current_price, comp_price) ==
    IF RLess(<<0, 1>>, comp_price)
    THEN RRound(RDiv(current_price, comp_price), 1000)
    ELSE NaN

GetActionDiscountFirst(row) ==
    LET idx  == row.Price_Index
        disc == row.Current_Discount
        gain == row.Weekly_Gain_KSh
    IN  IF RLess(<<12, 1>>, disc)
            THEN <<"Too discounted", <<"Reduce to 9%", gain>>>>
        ELSE IF RLess(idx, <<98, 100>>) /\ RLess(<<10, 1>>, disc)
            THEN <<"Too cheap + deep", <<"Raise to 9% off", gain>>>>
        ELSE IF RLess(idx, <<98, 100>>)
            THEN <<"Too cheap", <<"Raise price", gain>>>>
        ELSE IF RLess(<<105, 100>>, idx) /\ RLess(<<10, 1>>, disc)
            THEN <<"Too expensive + deep", <<"Cut discount", gain>>>>
        ELSE IF RLess(disc, <<5, 1>>) /\ RLess(<<102, 100>>, idx)
            THEN <<"Premium gold", <<"Keep - winning">>>>
        ELSE <<"Balanced", <<"Monitor">>>>

GetActionIndexOnly(row) ==
    LET idx  == row.Price_Index
        disc == row.Current_Discount
        gain == row.Weekly_Gain_KSh
    IN  IF RLess(idx, <<98, 100>>) /\ RLess(<<10, 1>>, disc)
            THEN <<"Too cheap + deep", <<"Raise to 9% off", gain>>>>
        ELSE IF RLess(idx, <<98, 100>>)
            THEN <<"Too cheap", <<"Raise price", gain>>>>
        ELSE IF RLess(<<105, 100>>, idx) /\ RLess(<<10, 1>>, disc)
            THEN <<"Too expensive + deep", <<"Cut discount", gain>>>>
        ELSE IF RLess(<<12, 1>>, disc)
            THEN <<"Too discounted", <<"Reduce to 9%", gain>>>>
        ELSE IF RLess(disc, <<5, 1>>) /\ RLess(<<102, 100>>, idx)
            THEN <<"Premium gold", <<"Keep - winning">>>>
        ELSE <<"Balanced", <<"Monitor">>>>

\* get_action(row): (Status, Action); the action text carries the gain.
get_action(row) ==
    LET idx  == row.Price_Index
        disc == row.Current_Discount
        gain == row.Weekly_Gain_KSh
    IN  IF IsNaN(idx)
        THEN IF RLess(<<12, 1>>, disc)
                 THEN <<"Too discounted", <<"Reduce to 9% off", gain>>>>
             ELSE IF RLess(disc, <<5, 1>>)
                 THEN <<"Premium", <<"Keep - protect margin">>>>
             ELSE <<"Balanced", <<"Monitor">>>>
        ELSE IF RLess(idx, <<98, 100>>) /\ RLess(<<10, 1>>, disc)
                 THEN <<"Too cheap + deep", <<"Raise to 9% off", gain>>>>
             ELSE IF RLess(idx, <<98, 100>>)
                 THEN <<"Too cheap", <<"Raise price", gain>>>>
             ELSE IF RLess(<<105, 100>>, idx) /\ RLess(<<10, 1>>, disc)
                 THEN <<"Too expensive + deep", <<"Cut discount", gain>>>>
             ELSE IF RLess(<<12, 1>>, disc)
                 THEN <<"Too discounted", <<"Reduce to 9%", gain>>>>
             ELSE IF RLess(disc, <<5, 1>>) /\ RLess(<<102, 100>>, idx)
                 THEN <<"Premium gold", <<"Keep - winning">>>>
             ELSE <<"Balanced", <<"Monitor">>>>

\* weekly_gain of one pass of the section loop.
weekly_gain(bidco, section) ==
    LET bidco_sec     == SectionRows(bidco, section)
        units         == SumInt(Column(bidco_sec, "Quantity"))
        revenue       == RSum(Column(bidco_sec, "TotalSales"))
        current_price == RDiv(revenue, <<units, 1>>)
        rrp           == RDiv(RSum(TimesQuantity(bidco_sec, "RRP")), <<units, 1>>)
        target_price  == RMul(rrp, <<91, 100>>)
        gain_per_unit == RSub(target_price, current_price)
    IN  Max0(RMul(gain_per_unit, <<units, 1>>))

\* One pass of the section loop: the row appended to results, with the
\* Status and Action that get_action adds to it.
SectionMetrics(bidco, comp, section) ==
    LET bidco_sec        == SectionRows(bidco, section)
        units            == SumInt(Column(bidco_sec, "Quantity"))
        revenue          == RSum(Column(bidco_sec, "TotalSales"))
        current_price    == RDiv(revenue, <<units, 1>>)
        rrp              == RDiv(RSum(TimesQuantity(bidco_sec, "RRP")), <<units, 1>>)
        current_discount == RMul(RSub(<<1, 1>>, RDiv(current_price, rrp)), <<100, 1>>)
        comp_sec         == SectionRows(comp, section)
        comp_price       == IF comp_sec = <<>> THEN NaN
                            ELSE RDiv(RSum(TimesQuantity(comp_sec, "Unit_Price")),
                                      <<SumInt(Column(comp_sec, "Quantity")), 1>>)
        section_index    == IF comp_sec = <<>> THEN NaN
                            ELSE SectionPriceIndex(current_price, comp_price)
        row == [Section          |-> section,
                Units_Sold       |-> units,
                RRP              |-> RRound(rrp, 10),
                Bidco_Price      |-> RRound(current_price, 10),
                Comp_Price       |-> RRound(comp_price, 10),
                Price_Index      |-> section_index,
                Current_Discount |-> RRound(current_discount, 10),
                Weekly_Gain_KSh  |-> IntOf(weekly_gain(bidco, section))]
    IN  [Section          |-> row.Section,
         Units_Sold       |-> row.Units_Sold,
         RRP              |-> row.RRP,
         Bidco_Price      |-> row.Bidco_Price,
         Comp_Price       |-> row.Comp_Price,
         Price_Index      |-> row.Price_Index,
         Current_Discount |-> row.Current_Discount,
         Status           |-> get_action(row)[1],
         Action           |-> get_action(row)[2],
         Weekly_Gain_KSh  |-> row.Weekly_Gain_KSh]

\* sort_values('Weekly_Gain_KSh', ascending=False).reset_index(drop=True);
\* rows of equal gain keep the order of the section loop.
RECURSIVE SortByGainDescending(_)
SortByGainDescending(rows) ==
    IF rows = <<>> THEN <<>>
    ELSE LET n      == Len(rows)
             sorted == SortByGainDescending(SubSeq(rows, 1, n - 1))
             \* the last row goes after every row whose gain is not smaller
             ahead  == Cardinality({k \in DOMAIN sorted :
                                       sorted[k].Weekly_Gain_KSh >= rows[n].Weekly_Gain_KSh})
         IN  SubSeq(sorted, 1, ahead) \o <<rows[n]>> \o SubSeq(sorted, ahead + 1, n - 1)

\* The section loop and what follows it, on bidco_data and comp_df.  With no
\* row in bidco_data the results list is empty, action_df has no columns and
\* the column selection raises; int() raises on a gain that is not finite.
SectionLoop(bidco, comp) ==
    LET sections == Unique(Column(bidco, "Section"))
        results  == [k \in DOMAIN sections |-> SectionMetrics(bidco, comp, sections[k])]
    IN  IF bidco = <<>> \/ \E k \in DOMAIN sections : weekly_gain(bidco, sections[k])[2] = 0
        THEN [ran |-> TRUE, raised |-> TRUE, table |-> <<>>]
        ELSE [ran |-> TRUE, raised |-> FALSE, table |-> SortByGainDescending(results)]

\* What run_pricing_pipeline returns when the file at full_data_path holds
\* the table full.
RunPricingPipeline(bidco, full) == SectionLoop(bidco, comp_df(full))

\* The file at full_data_path: a csv with the columns of the sales table, a
\* csv that lacks the 'Supplier' column, or no file at all.
FileStates == {"csv", "no Supplier column", "missing"}

\* What run_pricing_pipeline does with the file.  pd.read_csv (line 12) is
\* before the try and raises on a missing file; a failure inside the try
\* (lines 16-23) sets has_comp = False and the loop skips the competitors.
RunPricingPipelineOnFile(bidco, file, full) ==
    IF file = "missing" THEN [ran |-> TRUE, raised |-> TRUE, table |-> <<>>]
    ELSE IF file = "no Supplier column" THEN SectionLoop(bidco, <<>>)
    ELSE RunPricingPipeline(bidco, full)

(***************************************************************************)
(* The price index calls and the caller's currency                         *)
(***************************************************************************)
InitIndex ==
    /\ pi_df \in IndexTables
    /\ currency = 1
    /\ price_index = [u \in CurrencyUnits |-> NotRun]
    /\ final = [u \in CurrencyUnits |-> NotRun]
    /\ IdleExceptIndex

\* One call build_price_index(df) on the caller's table.
build_price_index ==
    /\ ~price_index[currency].ran
    /\ price_index' = [price_index EXCEPT
                          ![currency] = [ran |-> TRUE, table |-> BuildPriceIndexTable(pi_df)]]
    /\ UNCHANGED <<pi_df, currency, final, exceptIndex>>

\* One call run_pricing_pipeline(bidco_data) with the caller's table as the
\* file at full_data_path and its BIDCO AFRICA LIMITED rows as bidco_data.
run_pricing_pipeline ==
    /\ ~final[currency].ran
    /\ final' = [final EXCEPT ![currency] = RunPricingPipeline(bidco_data(pi_df), pi_df)]
    /\ UNCHANGED <<pi_df, currency, price_index, exceptIndex>>

\* The caller restates every money amount of the table (total sales, unit
\* price and RRP, of target and competitor rows alike) in another currency
\* unit.
change_currency(u) ==
    /\ currency = 1
    /\ u # currency
    /\ pi_df' = [i \in DOMAIN pi_df |->
                    [pi_df[i] EXCEPT !.TotalSales = RMul(@, <<u, 1>>),
                                     !.Unit_Price = RMul(@, <<u, 1>>),
                                     !.RRP = RMul(@, <<u, 1>>)]]
    /\ currency' = u
    /\ UNCHANGED <<price_index, final, exceptIndex>>

NextIndex ==
    \/ build_price_index
    \/ run_pricing_pipeline
    \/ \E u \in CurrencyUnits : change_currency(u)

SpecIndex == InitIndex /\ [][NextIndex]_vars

(***************************************************************************)
(* pi_summary.py: get_action on its own                                    *)
(***************************************************************************)
\* Price_Index is round(.., 3) or NaN: thousandths around the thresholds
\* 0.98, 1.02 and 1.05.
IndexValues ==
    {NaN} \cup {<<n, 1000>> : n \in {950, 979, 980, 1000, 1020, 1021, 1050, 1051}}
\* Current_Discount_% is round(.., 1): tenths around the thresholds 5, 10 and 12.
DiscountValues == {<<n, 10>> : n \in {0, 49, 50, 100, 101, 120, 121, 150}}
\* Weekly_Gain_KSh is int(..) of a value >= 0.
GainValues == {0, 600}

ActionRows ==
    [Price_Index : IndexValues, Current_Discount : DiscountValues, Weekly_Gain_KSh : GainValues]

InitAction ==
    /\ action_row \in ActionRows
    /\ status_action = NotRun
    /\ IdleExceptAction

\* action_df.apply(lambda x: pd.Series(get_action(x)), axis=1), for one row.
apply_get_action ==
    /\ ~status_action.ran
    /\ status_action' = [ran |-> TRUE, table |-> get_action(action_row)]
    /\ UNCHANGED <<action_row, exceptAction>>

NextAction == apply_get_action

SpecAction == InitAction /\ [][NextAction]_vars

(***************************************************************************)
(* pi_summary.py: run_pricing_pipeline and the file at full_data_path      *)
(***************************************************************************)
\* Most rows of an enumerated sales table of run_pricing_pipeline.
MaxPipelineRows == 2

Sections == {"OIL", "SOAP"}
\* <<Total Sales, Quantity>>: a sale under and a sale over the 9%-off target
\* of the list price, a give-away, a refund, and a record of no quantity.
PipelineSales == {<<85, 1>>, <<200, 2>>, <<0, 1>>, <<-85, 1>>, <<85, 0>>}

\* Unit_Price = Total Sales / Quantity (lines 14 and 19): inf for a sale of
\* no quantity.
PipelineRow(supplier, section, sale) ==
    [Supplier   |-> supplier,
     Section    |-> section,
     TotalSales |-> <<sale[1], 1>>,
     Quantity   |-> sale[2],
     RRP        |-> ListPrice,
     Unit_Price |-> RDiv(<<sale[1], 1>>, <<sale[2], 1>>)]

PipelineRows ==
    {PipelineRow(su, sec, sale) : su \in {BidcoAfrica, Unilever}, sec \in Sections,
                                  sale \in PipelineSales}
PipelineTables == SeqsUpTo(PipelineRows, MaxPipelineRows)

InitPipeline ==
    /\ full_df \in PipelineTables
    /\ full_data_path \in FileStates
    /\ action_df = NotRun
    /\ IdleExceptPipeline

\* One call run_pricing_pipeline(bidco_data, full_data_path) with the BIDCO
\* AFRICA LIMITED rows of the sales table as bidco_data.
run_pricing_pipeline_on_file ==
    /\ ~action_df.ran
    /\ action_df' = RunPricingPipelineOnFile(bidco_data(full_df), full_data_path, full_df)
    /\ UNCHANGED <<full_df, full_data_path, exceptPipeline>>

NextPipeline == run_pricing_pipeline_on_file

SpecPipeline == InitPipeline /\ [][NextPipeline]_vars

(***************************************************************************)
(* data_quality.py: data_health_pipeline, the health scores                *)
(***************************************************************************)
\* Most stores of an enumerated table.
MaxStores == 2
\* len(df.columns): Store Name, Item_Code, Description, Category, Section,
\* Sub-Department, Supplier, Quantity, Total Sales, RRP, Date Of Sale.
NumColumns == 11

\* The rows of a store.
StoreSizes == {4, 1000}
\* Units sold per row of a store of 4 rows (a store of 1000 rows sells one
\* unit per row).
UnitsPerRow == {1, 3}

\* What the table holds for one store: its rows, the rows without an
\* Item_Code, with a negative Quantity, with a negative Total Sales or RRP
\* and a Quantity that is not negative, without an RRP, with an RRP that
\* detect_outliers flags, the missing cells of the other columns, and the
\* units sold.
StoreCounts ==
    {c \in [size : StoreSizes, item_missing : {0, 4, 1000}, negative_rows : {0, 1},
             negative_money : {0, 1},
             missing_rrp : {0, 1}, outlier_count : {0, 1}, other_missing : {0, 1},
             units : {4, 12, 1000}] :
        /\ c.item_missing \in {0, c.size}
        /\ c.units \in {c.size * u : u \in IF c.size = 4 THEN UnitsPerRow ELSE {1}}
        \* a store whose rows all lack the Item_Code, or with a negative
        \* Total Sales or RRP, is clean otherwise
        /\ (c.item_missing = c.size \/ c.negative_money = 1) =>
               c.negative_rows + c.missing_rrp + c.outlier_count + c.other_missing = 0
        /\ c.item_missing = c.size => c.negative_money = 0}

StoreTables == SeqsUpTo(StoreCounts, MaxStores)

\* total_rows=('Item_Code', 'count'): the rows that have an Item_Code.
total_rows(c) == c.size - c.item_missing

\* The rows of the store in the negative_rows table the pipeline returns:
\* df[(df[numeric_cols] < 0).any(axis=1)].
negative_rows_reported(c) == c.negative_rows + c.negative_money

\* count / total_rows * 100 (lines 96-98).
Pct(count, c) == RNorm(RMul(RDiv(<<count, 1>>, <<total_rows(c), 1>>), <<100, 1>>))

\* pct_missing_all_cols: (total_missing_cells / total_possible_cells * 100).round(2)
pct_missing_all_cols(c) ==
    RRound(RMul(RDiv(<<c.item_missing + c.missing_rrp + c.other_missing, 1>>,
                     <<c.size * NumColumns, 1>>), <<100, 1>>), 100)

\* Unreliable_Store: outlier_rate > 10, with outlier_rate = (outlier_count /
\* total_products.replace(0, 1) * 100).round(2) over the rows with an RRP.
Unreliable_Store(c) ==
    LET counted        == c.size - c.item_missing - c.missing_rrp
        total_products == IF counted = 0 THEN 1 ELSE counted
    IN  RLess(<<10, 1>>,
              RRound(RMul(RDiv(<<c.outlier_count, 1>>, <<total_products, 1>>), <<100, 1>>), 100))

\* s after the deductions of compute_health_score.
Deducted(c) ==
    LET s1 == RNorm(RSub(<<100, 1>>, RNorm(RMul(Pct(c.negative_rows, c), <<20, 100>>))))
        s2 == RNorm(RSub(s1, RNorm(RMul(Pct(c.missing_rrp, c), <<15, 100>>))))
        s3 == RNorm(RSub(s2, RNorm(RMul(Pct(c.outlier_count, c), <<30, 100>>))))
        s4 == RNorm(RSub(s3, RNorm(RMul(RNorm(pct_missing_all_cols(c)), <<25, 100>>))))
    IN  IF Unreliable_Store(c) THEN RSub(s4, <<10, 1>>) ELSE s4

\* max(round(s, 1), 0): the first argument unless 0 is greater, so a NaN
\* stays.
FloorRounded(s) ==
    LET rounded == RRound(s, 10)
    IN  IF RLess(rounded, <<0, 1>>) THEN <<0, 1>> ELSE rounded

compute_health_score(c) == FloorRounded(Deducted(c))

OverallByUnits(t) ==
    LET weighted == [k \in DOMAIN t |-> RNorm(RMul(compute_health_score(t[k]), <<t[k].units, 1>>))]
        weights  == [k \in DOMAIN t |-> t[k].units]
    IN  RRound(RNorm(RDiv(RNorm(RSum(weighted)), <<SumInt(weights), 1>>)), 10)

\* ((Data_Health_Score * total_rows).sum() / total_rows.sum()).round(1)
overall_score(t) ==
    LET weighted == [k \in DOMAIN t |-> RNorm(RMul(compute_health_score(t[k]), <<total_rows(t[k]), 1>>))]
        weights  == [k \in DOMAIN t |-> total_rows(t[k])]
    IN  RRound(RNorm(RDiv(RNorm(RSum(weighted)), <<SumInt(weights), 1>>)), 10)

InitHealth ==
    /\ store_health \in StoreTables \ {<<>>}
    /\ health_report = NotRun
    /\ IdleExceptHealth

\* One call data_health_pipeline(df): the Data_Health_Score column and the
\* overall score.
data_health_pipeline ==
    /\ ~health_report.ran
    /\ health_report' =
           [ran |-> TRUE,
            table |-> [k \in DOMAIN store_health |-> compute_health_score(store_health[k])],
            pct_negative |->
                [k \in DOMAIN store_health |-> Pct(store_health[k].negative_rows, store_health[k])],
            negative_rows |->
                [k \in DOMAIN store_health |-> negative_rows_reported(store_health[k])],
            overall_score |-> overall_score(store_health)]
    /\ UNCHANGED <<store_health, exceptHealth>>

NextHealth == data_health_pipeline

SpecHealth == InitHealth /\ [][NextHealth]_vars

(***************************************************************************)
(* promo_analysis.py, promo_uplifts.py: the promotion uplifts              *)
(***************************************************************************)
\* Most rows of an enumerated table of the uplift functions.
MaxUpliftRows == 2

\* (Store Name, Section), listed in sort order.
StoreSections == <<<<"S1", "OIL">>, <<"S1", "SOAP">>, <<"S2", "OIL">>>>
\* Quantity of a record; a Sale Record has quantity > 0.
UpliftQuantities == {1, 3}

UpliftRow(supplier, key, on_promo, quantity) ==
    [Supplier |-> supplier, Store |-> key[1], Section |-> key[2],
     On_Promo |-> on_promo, Quantity |-> quantity]

\* The BIDCO records, and one record of a competitor.
UpliftRows ==
    {UpliftRow(BidcoAfrica, key, p, q) :
        key \in Range(StoreSections), p \in BOOLEAN, q \in UpliftQuantities}
    \cup {UpliftRow(Unilever, StoreSections[1], TRUE, 3)}
UpliftTables == SeqsUpTo(UpliftRows, MaxUpliftRows)

\* df[df['Supplier'] == 'BIDCO AFRICA LIMITED']
bidco_df(t) ==
    LET IsBidco(r) == r.Supplier = BidcoAfrica
    IN  SelectSeq(t, IsBidco)

\* The Quantity of the rows of one (store, section) with the given On_Promo.
QuantitiesOf(t, key, on_promo) ==
    LET Picked(r) == r.Store = key[1] /\ r.Section = key[2] /\ r.On_Promo = on_promo
        rows == SelectSeq(t, Picked)
    IN  [k \in DOMAIN rows |-> <<rows[k].Quantity, 1>>]

\* bidco_df[bidco_df['On_Promo'] == on_promo].groupby(['Store Name',
\* 'Section'])['Quantity'].mean().reset_index(): one row per key that has
\* such a record.
MeanUnits(t, on_promo) ==
    LET Occurs(key) == QuantitiesOf(t, key, on_promo) # <<>>
        keys == SelectSeq(StoreSections, Occurs)
    IN  [k \in DOMAIN keys |->
            [Key |-> keys[k], Units |-> RNorm(RMean(QuantitiesOf(t, keys[k], on_promo)))]]

\* ((promo - baseline) / baseline) * 100
UpliftPct(promo_units, baseline_units) ==
    RNorm(RMul(RDiv(RSub(promo_units, baseline_units), baseline_units), <<100, 1>>))

\* Series.fillna(0): a NaN becomes 0, every other value stays.
fillna0(a) == IF IsNaN(a) THEN <<0, 1>> ELSE a

\* The table calculate_bidco_store_section_uplift returns: the promo means
\* merged (how='left') with the baseline means, the uplift, its Type and
\* the filled uplift.
StoreSectionUplift(t) ==
    LET promo_means == MeanUnits(bidco_df(t), TRUE)
        baseline    == MeanUnits(bidco_df(t), FALSE)
        BaselineOf(key) ==
            LET Matches(b) == b.Key = key
                found == SelectSeq(baseline, Matches)
            IN  IF found = <<>> THEN NaN ELSE found[1].Units
    IN  [k \in DOMAIN promo_means |->
            LET b == BaselineOf(promo_means[k].Key)
                u == UpliftPct(promo_means[k].Units, b)
            IN  [Key                   |-> promo_means[k].Key,
                 Promo_Units           |-> promo_means[k].Units,
                 Baseline_Units        |-> b,
                 Promo_Uplift_Pct      |-> u,
                 Type                  |-> IF IsNaN(b) THEN "Emerging Promo" ELSE "Reliable Uplift",
                 Promo_Uplift_Pct_Fill |-> fillna0(u)]]

UnitsOfSection(t, section, on_promo) ==
    LET rows == SectionRows(t, section)
    IN  SumInt([k \in DOMAIN rows |-> rows[k].Quantity])

\* bidco_data['Quantity'].where(bidco_data['On_Promo'] == on_promo, 0),
\* summed over the rows of a section.
UnitsWhere(t, section, on_promo) ==
    LET rows == SectionRows(t, section)
    IN  SumInt([k \in DOMAIN rows |-> IF rows[k].On_Promo = on_promo THEN rows[k].Quantity ELSE 0])

\* section_units['Baseline_Units'].replace({0: np.nan})
ReplaceZeroByNaN(n) == IF n = 0 THEN NaN ELSE <<n, 1>>

RECURSIVE SortByUpliftDescending(_)
\* sort_values('Promo_Uplift_Pct', ascending=False): NaN last, rows of the
\* same uplift in the order they had.
SortByUpliftDescending(rows) ==
    IF rows = <<>> THEN <<>>
    ELSE LET n      == Len(rows)
             sorted == SortByUpliftDescending(SubSeq(rows, 1, n - 1))
             last   == rows[n].Promo_Uplift_Pct
             ahead  == Cardinality({k \in DOMAIN sorted :
                          IsNaN(last) \/ RLeq(last, sorted[k].Promo_Uplift_Pct)})
         IN  SubSeq(sorted, 1, ahead) \o <<rows[n]>> \o SubSeq(sorted, ahead + 1, n - 1)

\* The table calculate_bidco_promo_uplift returns.
SectionUplift(t) ==
    LET Occurs(section) == SectionRows(bidco_df(t), section) # <<>>
        sections == SelectSeq(<<"OIL", "SOAP">>, Occurs)
        units == [k \in DOMAIN sections |->
                    LET p == UnitsWhere(bidco_df(t), sections[k], TRUE)
                        b == UnitsWhere(bidco_df(t), sections[k], FALSE)
                    IN  [Section          |-> sections[k],
                         Promo_Units      |-> p,
                         Baseline_Units   |-> b,
                         Promo_Uplift_Pct |->
                             RNorm(RMul(RDiv(<<p - b, 1>>, ReplaceZeroByNaN(b)), <<100, 1>>))]]
    IN  SortByUpliftDescending(units)

\* uplift_category(uplift)
uplift_category(uplift) ==
    IF RLess(<<500, 1>>, uplift) THEN "Very High Uplift"
    ELSE IF RLess(<<100, 1>>, uplift) THEN "High Uplift"
    ELSE IF RLess(<<0, 1>>, uplift) THEN "Moderate Uplift"
    ELSE "Low/Negative Uplift"

InitUplift ==
    /\ promo_df \in UpliftTables
    /\ promo_analysis = NotRun
    /\ section_units_sorted = NotRun
    /\ IdleExceptUplift

\* One call calculate_bidco_store_section_uplift(df).
calculate_bidco_store_section_uplift ==
    /\ ~promo_analysis.ran
    /\ promo_analysis' = [ran |-> TRUE, table |-> StoreSectionUplift(promo_df)]
    /\ UNCHANGED <<promo_df, section_units_sorted, exceptUplift>>

\* One call calculate_bidco_promo_uplift(df).
calculate_bidco_promo_uplift ==
    /\ ~section_units_sorted.ran
    /\ section_units_sorted' =
           [ran |-> TRUE,
            columns |-> <<"Section", "Promo_Units", "Baseline_Units", "Promo_Uplift_Pct">>,
            table |-> SectionUplift(promo_df)]
    /\ UNCHANGED <<promo_df, promo_analysis, exceptUplift>>

\* One call visualize_bidco_promo_uplift(section_units_sorted): the two
\* columns are assigned on the table that was passed in.
visualize_bidco_promo_uplift ==
    /\ section_units_sorted.ran
    /\ "Uplift_Category" \notin Range(section_units_sorted.columns)
    /\ section_units_sorted' =
           [ran |-> TRUE,
            columns |-> section_units_sorted.columns
                            \o <<"Promo_Uplift_Pct_Filled", "Uplift_Category">>,
            table |-> [k \in DOMAIN section_units_sorted.table |->
                LET r == section_units_sorted.table[k]
                IN  [Section                 |-> r.Section,
                     Promo_Units             |-> r.Promo_Units,
                     Baseline_Units          |-> r.Baseline_Units,
                     Promo_Uplift_Pct        |-> r.Promo_Uplift_Pct,
                     Promo_Uplift_Pct_Filled |-> fillna0(r.Promo_Uplift_Pct),
                     Uplift_Category         |-> uplift_category(fillna0(r.Promo_Uplift_Pct))]]]
    /\ UNCHANGED <<promo_df, promo_analysis, exceptUplift>>

NextUplift ==
    \/ calculate_bidco_store_section_uplift
    \/ calculate_bidco_promo_uplift
    \/ visualize_bidco_promo_uplift

SpecUplift == InitUplift /\ [][NextUplift]_vars

(***************************************************************************)
(* bidco_pricing.py: the store action plan                                 *)
(***************************************************************************)
\* Most stores of an enumerated store_summary.
MaxStrategyStores == 2

\* 'Store Name' of the k-th row.
StoreName(k) == <<"S1", "S2", "S3">>[k]
\* Avg_Price_Index: undefined, 0.95, 1.0, 1.05.
AvgPriceIndexes == {NaN, <<950, 1000>>, <<1, 1>>, <<1050, 1000>>}
\* Avg_Discount: 5, 8 and 12.34 percent, or undefined.
AvgDiscounts == {<<5, 1>>, <<8, 1>>, <<1234, 100>>, NaN}
Positionings == {"Premium", "Discount"}

StoreSummaryRows(k) ==
    {[Store |-> StoreName(k), Avg_Price_Index |-> i, Avg_Discount |-> d, Positioning |-> p] :
        i \in AvgPriceIndexes, d \in AvgDiscounts, p \in Positionings}

\* One row per store, for the first n stores.
StoreSummaries ==
    UNION {{t \in [1..n -> UNION {StoreSummaryRows(k) : k \in 1..n}] :
                \A k \in 1..n : t[k].Store = StoreName(k)} : n \in 0..MaxStrategyStores}

\* len(store_summary) == 0 or store_summary['Avg_Price_Index'].isna().all()
NoCompetitorData(t) ==
    \/ Len(t) = 0
    \/ \A k \in DOMAIN t : IsNaN(t[k].Avg_Price_Index)

\* A text is the sequence of its words; the arrow is a word of its own.
Arrow == "->"
Bold(store) == <<"**", store, "**:">>

StrategyActionDeepFrom8(row) ==
    LET idx   == row.Avg_Price_Index
        disc  == row.Avg_Discount
        store == row.Store
        one   == <<1, 1>>
        deep  == <<8, 1>>
    IN  IF RLess(idx, one) /\ RLeq(deep, disc)
        THEN Bold(store) \o <<"Too", "cheap", "+", "deep", "discount", Arrow, "**Reduce", "promo**">>
        ELSE IF RLess(one, idx) /\ RLeq(deep, disc)
        THEN Bold(store) \o <<"Expensive", "+", "deep", "discount", Arrow, "**Cut", "discount**">>
        ELSE IF RLess(idx, one) /\ RLess(disc, deep)
        THEN Bold(store) \o <<"Too", "cheap", Arrow, "**Raise", "price", "+5%**">>
        ELSE IF RLess(one, idx) /\ RLess(disc, deep)
        THEN Bold(store) \o <<"Premium", "+", "low", "discount", Arrow, "**Keep", "-", "winning!**">>
        ELSE Bold(store) \o <<"Balanced", "-", "monitor">>

\* get_action(row) of generate_bidco_pricing_strategy
StrategyAction(row) ==
    LET idx   == row.Avg_Price_Index
        disc  == row.Avg_Discount
        store == row.Store
        one   == <<1, 1>>
        deep  == <<8, 1>>
    IN  IF RLess(idx, one) /\ RLess(deep, disc)
        THEN Bold(store) \o <<"Too", "cheap", "+", "deep", "discount", Arrow, "**Reduce", "promo**">>
        ELSE IF RLess(one, idx) /\ RLess(deep, disc)
        THEN Bold(store) \o <<"Expensive", "+", "deep", "discount", Arrow, "**Cut", "discount**">>
        ELSE IF RLess(idx, one) /\ RLeq(disc, deep)
        THEN Bold(store) \o <<"Too", "cheap", Arrow, "**Raise", "price", "+5%**">>
        ELSE IF RLess(one, idx) /\ RLeq(disc, deep)
        THEN Bold(store) \o <<"Premium", "+", "low", "discount", Arrow, "**Keep", "-", "winning!**">>
        ELSE Bold(store) \o <<"Balanced", "-", "monitor">>

RECURSIVE SplitAtArrow(_)
\* x.split(arrow): the pieces of the text between the arrows.
SplitAtArrow(text) ==
    IF \A k \in DOMAIN text : text[k] # Arrow THEN <<text>>
    ELSE LET first == CHOOSE k \in DOMAIN text :
                        text[k] = Arrow /\ \A j \in 1..(k - 1) : text[j] # Arrow
         IN  <<SubSeq(text, 1, first - 1)>> \o SplitAtArrow(SubSeq(text, first + 1, Len(text)))

urgency_order ==
    [key \in {"Reduce promo", "Cut discount", "Raise price", "Keep", "Balanced"} |->
        CASE key = "Reduce promo" -> 1
          [] key = "Cut discount" -> 2
          [] key = "Raise price"  -> 3
          [] key = "Keep"         -> 4
          [] key = "Balanced"     -> 5]

\* x.split(arrow)[1].strip().split()[0] raises IndexError when the text
\* has no arrow or nothing after it.
UrgencyRaises(text) ==
    \/ Len(SplitAtArrow(text)) < 2
    \/ SplitAtArrow(text)[2] = <<>>

\* urgency_order.get(x.split(arrow)[1].strip().split()[0], 6)
Urgency(text) ==
    LET word == SplitAtArrow(text)[2][1]
    IN  IF word \in DOMAIN urgency_order THEN urgency_order[word] ELSE 6

RECURSIVE SortByUrgency(_)
\* table.sort_values('urgency'): rows of the same urgency keep their order.
SortByUrgency(rows) ==
    IF rows = <<>> THEN <<>>
    ELSE LET n      == Len(rows)
             sorted == SortByUrgency(SubSeq(rows, 1, n - 1))
             ahead  == Cardinality({k \in DOMAIN sorted : sorted[k].urgency <= rows[n].urgency})
         IN  SubSeq(sorted, 1, ahead) \o <<rows[n]>> \o SubSeq(sorted, ahead + 1, n - 1)

\* store_summary['Action'] = store_summary.apply(get_action, axis=1)
WithAction(t) ==
    [k \in DOMAIN t |->
        [Store |-> t[k].Store, Avg_Price_Index |-> t[k].Avg_Price_Index,
         Avg_Discount |-> t[k].Avg_Discount, Positioning |-> t[k].Positioning,
         Action |-> StrategyAction(t[k])]]

\* The table generate_bidco_pricing_strategy returns: the five columns, the
\* index rounded to 3 decimals, the discount as text, sorted by urgency.
StrategyTable(t) ==
    LET rows == [k \in DOMAIN t |->
                    [Store |-> t[k].Store,
                     Avg_Price_Index |-> RRound(t[k].Avg_Price_Index, 1000),
                     Avg_Discount |-> <<RRound(t[k].Avg_Discount, 10), "%">>,
                     Positioning |-> t[k].Positioning,
                     Action |-> StrategyAction(t[k]),
                     urgency |-> Urgency(StrategyAction(t[k]))]]
        sorted == SortByUrgency(rows)
    IN  [k \in DOMAIN sorted |->
            [Store |-> sorted[k].Store, Avg_Price_Index |-> sorted[k].Avg_Price_Index,
             Avg_Discount |-> sorted[k].Avg_Discount, Positioning |-> sorted[k].Positioning,
             Action |-> sorted[k].Action]]

InitStrategy ==
    /\ store_summary \in StoreSummaries
    /\ strategy = NotRun
    /\ IdleExceptStrategy

\* One call generate_bidco_pricing_strategy(store_summary, overall_index).
generate_bidco_pricing_strategy ==
    /\ ~strategy.ran
    /\ IF NoCompetitorData(store_summary)
       THEN /\ strategy' = [ran |-> TRUE, raised |-> FALSE, returned |-> "None", table |-> <<>>]
            /\ UNCHANGED store_summary
       ELSE /\ store_summary' = WithAction(store_summary)
            /\ IF \E k \in DOMAIN store_summary : UrgencyRaises(StrategyAction(store_summary[k]))
               THEN strategy' = [ran |-> TRUE, raised |-> TRUE, returned |-> "IndexError",
                                 table |-> <<>>]
               ELSE strategy' = [ran |-> TRUE, raised |-> FALSE, returned |-> "table",
                                 table |-> StrategyTable(store_summary)]
    /\ UNCHANGED exceptStrategy

NextStrategy == generate_bidco_pricing_strategy

SpecStrategy == InitStrategy /\ [][NextStrategy]_vars

(***************************************************************************)
(* bidco_kpi_api.py: start_bidco_kpi_api and its request handlers          *)
(***************************************************************************)
\* Most requests served in a run, and most rows of bidco_data.
MaxRequests == 2
MaxKpiRows == 2

\* A row of bidco_data: Promo_Units is the Quantity of an on-promo row.
KpiRow(sale, on_promo) ==
    [TotalSales  |-> <<sale[1], 1>>,
     Quantity    |-> sale[2],
     RRP         |-> ListPrice,
     On_Promo    |-> on_promo,
     Promo_Units |-> IF on_promo THEN sale[2] ELSE 0]
KpiRows == {KpiRow(sale, p) : sale \in Sales, p \in BOOLEAN}
KpiTables == SeqsUpTo(KpiRows, MaxKpiRows) \ {<<>>}

\* df_original: not given (the default None), a table without the
\* 'Supplier' column, or a sales table, of which the rows that are not
\* BIDCO's count: none, one unit at 100, or one unit at 95 and two at 100.
CompetitorRow(sale) ==
    [TotalSales |-> <<sale[1], 1>>, Quantity |-> sale[2], Unit_Price |-> <<sale[1], sale[2]>>]
Originals ==
    {[kind |-> "None", comp |-> <<>>], [kind |-> "no Supplier column", comp |-> <<>>]}
    \cup {[kind |-> "table", comp |-> c] :
            c \in {<<>>, <<CompetitorRow(<<100, 1>>)>>,
                   <<CompetitorRow(<<95, 1>>), CompetitorRow(<<200, 2>>)>>}}

\* weekly_gain=27618
DefaultWeeklyGain == 27618

\* f"{price_index:.3f}": the text of a float with 3 decimals, "nan" for NaN.
Format3(a) == IF IsNaN(a) THEN "nan" ELSE <<"%.3f", RNorm(RRound(a, 1000))>>

\* The try block: the price index text, "N/A" when anything in it raises.
price_index_str(avg_price, original) ==
    IF original.kind # "table" THEN "N/A"
    ELSE LET comp_price == RDiv(RSum(TimesQuantity(original.comp, "Unit_Price")),
                                <<SumInt(Column(original.comp, "Quantity")), 1>>)
         IN  Format3(SectionPriceIndex(avg_price, comp_price))

\* The values computed in step 1, which the handlers close over.
RecalculateKpis(t, original) ==
    LET total_revenue == RSum(Column(t, "TotalSales"))
        total_units   == SumInt(Column(t, "Quantity"))
        avg_rrp       == RDiv(RSum(TimesQuantity(t, "RRP")), <<total_units, 1>>)
        avg_price     == RDiv(total_revenue, <<total_units, 1>>)
        avg_discount  == RMul(RSub(<<1, 1>>, RDiv(avg_price, avg_rrp)), <<100, 1>>)
        promo_count   == Cardinality({k \in DOMAIN t : t[k].On_Promo})
        promo_rate    == RMul(<<promo_count, Len(t)>>, <<100, 1>>)
        promo_qty     == SumInt([k \in DOMAIN t |-> IF t[k].On_Promo THEN t[k].Quantity ELSE 0])
        promo_units   == SumInt(Column(t, "Promo_Units"))
        promo_uplift  == IF promo_units > 0
                         THEN RMul(RSub(<<promo_qty, promo_units>>, <<1, 1>>), <<100, 1>>)
                         ELSE <<0, 1>>
    IN  [total_revenue   |-> RNorm(total_revenue),
         total_units     |-> total_units,
         avg_discount    |-> RNorm(avg_discount),
         promo_rate      |-> RNorm(promo_rate),
         promo_uplift    |-> RNorm(promo_uplift),
         price_index_str |-> price_index_str(avg_price, original),
         weekly_gain     |-> DefaultWeeklyGain]

KpisJsonLive(closure) == RecalculateKpis(kpi_bidco_data, kpi_df_original)

\* What kpis_json reads: the variables of the enclosing call.
KpisJsonReads(closure) == closure

\* The body kpis_json returns.
kpis_json(closure) ==
    LET k == KpisJsonReads(closure)
    IN  [total_revenue_ksh  |-> RRound(k.total_revenue, 1)[1],
         units_sold         |-> k.total_units,
         avg_discount_pct   |-> RNorm(RRound(k.avg_discount, 10)),
         price_index        |-> k.price_index_str,
         promo_coverage_pct |-> RRound(k.promo_rate, 1)[1],
         promo_uplift_pct   |-> RRound(k.promo_uplift, 1)[1],
         weekly_gain_ksh    |-> k.weekly_gain,
         data_health        |-> "99/100"]

InitApi ==
    /\ kpi_bidco_data \in KpiTables
    /\ kpi_df_original \in Originals
    /\ kpi_app = NotRun
    /\ kpi_responses = <<>>
    /\ IdleExceptApi

\* start_bidco_kpi_api up to the creation of the app: step 1 computes the
\* values from a copy of bidco_data, step 2 defines the handlers.
recalculate_kpis ==
    /\ ~kpi_app.ran
    /\ kpi_app' = [ran |-> TRUE, serving |-> FALSE,
                   df |-> kpi_bidco_data, full_df |-> kpi_df_original,
                   closure |-> RecalculateKpis(kpi_bidco_data, kpi_df_original)]
    /\ UNCHANGED <<kpi_bidco_data, kpi_df_original, kpi_responses, exceptApi>>

\* Step 3: thread.start() on run_server, and the return of the app.
thread_start ==
    /\ kpi_app.ran
    /\ ~kpi_app.serving
    /\ kpi_app' = [kpi_app EXCEPT !.serving = TRUE]
    /\ UNCHANGED <<kpi_bidco_data, kpi_df_original, kpi_responses, exceptApi>>

\* The server thread serves GET /kpis/json.
serve_kpis_json ==
    /\ kpi_app.ran
    /\ kpi_app.serving
    /\ Len(kpi_responses) < MaxRequests
    /\ kpi_responses' = Append(kpi_responses, [path |-> "/kpis/json", body |-> kpis_json(kpi_app.closure)])
    /\ UNCHANGED <<kpi_bidco_data, kpi_df_original, kpi_app, exceptApi>>

\* The server thread serves GET /kpis: the page shows the same values.
serve_kpi_dashboard ==
    /\ kpi_app.ran
    /\ kpi_app.serving
    /\ Len(kpi_responses) < MaxRequests
    /\ kpi_responses' = Append(kpi_responses, [path |-> "/kpis", body |-> "html"])
    /\ UNCHANGED <<kpi_bidco_data, kpi_df_original, kpi_app, exceptApi>>

\* The caller, back in control once the app is returned, goes on working
\* while the server thread runs: it rebinds or rewrites its tables (here,
\* to a table of one row and to any df_original).
caller_continues ==
    /\ kpi_app.ran
    /\ kpi_app.serving
    /\ \E r \in KpiRows, o \in Originals :
        /\ <<<<r>>, o>> # <<kpi_bidco_data, kpi_df_original>>
        /\ kpi_bidco_data' = <<r>>
        /\ kpi_df_original' = o
    /\ UNCHANGED <<kpi_app, kpi_responses, exceptApi>>

NextApi ==
    \/ recalculate_kpis
    \/ thread_start
    \/ serve_kpis_json
    \/ serve_kpi_dashboard
    \/ caller_continues

SpecApi == InitApi /\ [][NextApi]_vars

(***************************************************************************)
(* Promotion detector: claims C1 - C5                                      *)
(***************************************************************************)
MinDaysRun == {m \in 1..MaxMinDays : promo[m].ran}

\* The rows of t that satisfy Keep, in order, and where row i of t lands.
Restrict(t, Keep(_)) == SelectSeq(t, Keep)
PosIn(t, Keep(_), i) == Cardinality({j \in 1..i : Keep(t[j])})

\* The claims' own reading of a record: the item it is of, its discount
\* against 10%, and the records of its (item, week).
SameItem(r, s) == r.Item_Code = s.Item_Code /\ r.Description = s.Description
MeetsThreshold(r) == r.TotalSales * 10 <= 9 * r.RRP * r.Quantity
ItemWeekRows(out, i) ==
    {j \in DOMAIN df : SameItem(df[i], df[j]) /\ out[j].Year_Week = out[i].Year_Week}
QualifyingEntries(out, i) == {j \in ItemWeekRows(out, i) : MeetsThreshold(df[j])}
QualifyingDays(out, i) == {df[j].Date : j \in QualifyingEntries(out, i)}

OneRowPerStoreItemDate ==
    \A i, j \in DOMAIN df :
        (SameItem(df[i], df[j]) /\ df[i].Store = df[j].Store /\ df[i].Date = df[j].Date)
            => i = j

\* C2: the quantity compared with min_days is the number of distinct days of
\* the week on which the item's discount met the threshold, so that several
\* discounted records of one date count once (stated for the tables with one
\* row per store, item and date).
C2_DistinctDaysCounted ==
    OneRowPerStoreItemDate =>
    \A m \in MinDaysRun :
        \A i \in DOMAIN df :
            promo[m].table[i].On_Promo <=>
                Cardinality(QualifyingDays(promo[m].table, i)) >= m

\* C3 as stated: the flag is per (item, store, week).  The table and the
\* table without the records of the other stores agree on every record of a
\* store, so each of its records would get the same On_Promo in both runs.
C3_PerItemStoreWeek ==
    \A m \in MinDaysRun :
        \A i \in DOMAIN df :
            LET OfStore(r) == r.Store = df[i].Store
            IN  promo[m].table[i].On_Promo =
                    DetectPromotionsTable(Restrict(df, OfStore), m)[PosIn(df, OfStore, i)].On_Promo

\* C3 amended: the flag is per (item, week) over all stores.  Two tables that
\* agree on all records of an item and week give those records the same
\* On_Promo: the run on the whole table and the run on the records of the
\* item and week alone agree.
C3_PerItemWeek ==
    \A m \in MinDaysRun :
        \A i \in DOMAIN df :
            LET OfItemWeek(r) == SameItem(r, df[i]) /\ Year_Week(r.Date) = Year_Week(df[i].Date)
            IN  promo[m].table[i].On_Promo =
                    DetectPromotionsTable(Restrict(df, OfItemWeek), m)[PosIn(df, OfItemWeek, i)].On_Promo

\* A flagged record whose item-week has records in both stores, next to a
\* record of the other item of the same week.
C3_Witness ==
    /\ promo[DefaultMinDays].ran
    /\ \E i, j, k \in DOMAIN df :
        /\ promo[DefaultMinDays].table[i].On_Promo
        /\ SameItem(df[i], df[j]) /\ df[i].Store # df[j].Store
        /\ promo[DefaultMinDays].table[j].Year_Week = promo[DefaultMinDays].table[i].Year_Week
        /\ ~SameItem(df[i], df[k])
        /\ promo[DefaultMinDays].table[k].Year_Week = promo[DefaultMinDays].table[i].Year_Week

\* C4: promotion detection is monotonic in min_days.  A record flagged with
\* min_days = m is flagged with every smaller min_days on the same table.
C4_MonotonicInMinDays ==
    \A m \in MinDaysRun :
        \A lower \in {n \in MinDaysRun : n <= m} :
            \A i \in DOMAIN df :
                promo[m].table[i].On_Promo => promo[lower].table[i].On_Promo

\* Both calls were made; one record is flagged by both and another only by
\* the call with the smaller min_days.
C4_Witness ==
    /\ promo[1].ran /\ promo[2].ran
    /\ \E i, j \in DOMAIN df :
        /\ promo[2].table[i].On_Promo /\ promo[1].table[i].On_Promo
        /\ promo[1].table[j].On_Promo /\ ~promo[2].table[j].On_Promo

\* C5: with min_days >= 2, the records of an (item, week) whose records all
\* fall on one calendar day are never flagged (stated for the tables with
\* one row per store, item and date).
C5_SingleDayWeekNeverPromo ==
    OneRowPerStoreItemDate =>
    \A m \in MinDaysRun :
        m >= 2 =>
            \A i \in DOMAIN df :
                Cardinality({df[j].Date : j \in ItemWeekRows(promo[m].table, i)}) = 1
                    => ~promo[m].table[i].On_Promo

(***************************************************************************)
(* Outlier classifiers: claims C6 - C8                                     *)
(***************************************************************************)
\* The claims' own quartile: linear interpolation between the two sorted
\* neighbours of position (n-1)*k/4, as their weighted mean.
LinearQuartile(g, k) ==
    LET n   == Len(g)
        s   == Sorted(g)
        lo  == (((n - 1) * k) \div 4) + 1
        rem == ((n - 1) * k) % 4
        hi  == IF rem = 0 THEN lo ELSE lo + 1
    IN  <<(4 - rem) * s[lo] + rem * s[hi], 4>>

\* Q1 - 1.5*IQR = (5*Q1 - 3*Q3)/2 and Q3 + 1.5*IQR = (5*Q3 - 3*Q1)/2.
ClaimLower(g) == RMul(<<1, 2>>, RSub(RMul(<<5, 1>>, LinearQuartile(g, 1)),
                                      RMul(<<3, 1>>, LinearQuartile(g, 3))))
ClaimUpper(g) == RMul(<<1, 2>>, RSub(RMul(<<5, 1>>, LinearQuartile(g, 3)),
                                      RMul(<<3, 1>>, LinearQuartile(g, 1))))

RowsOfItem(code) == {i \in DOMAIN price_df : price_df[i].Item_Code = code}

\* C6: for every group with at least 4 values, lower <= Q1 <= Q3 <= upper with
\* Q1, Q3 by linear interpolation and the bounds 1.5 IQR away; a value is
\* flagged exactly when it is strictly below lower (low) or strictly above
\* upper (high), never both, and a value in [lower, upper], a bound included,
\* is not flagged.
C6_BoundsOrderedAndFlagsExact ==
    \A code \in ItemCodes :
        LET g  == GroupSeries(price_df, code)
            Q1 == quantile(g, 1)
            Q3 == quantile(g, 3)
            lo == lower_bound(Q1, Q3)
            up == upper_bound(Q1, Q3)
        IN  Len(g) >= 4 =>
            /\ REq(Q1, LinearQuartile(g, 1)) /\ REq(Q3, LinearQuartile(g, 3))
            /\ REq(lo, ClaimLower(g)) /\ REq(up, ClaimUpper(g))
            /\ RLeq(lo, Q1) /\ RLeq(Q1, Q3) /\ RLeq(Q3, up)
            /\ df_item[code].ran =>
                \A k \in DOMAIN g :
                    LET below == RLess(<<g[k], 1>>, ClaimLower(g))
                        above == RLess(ClaimUpper(g), <<g[k], 1>>)
                    IN  /\ ~(below /\ above)
                        /\ df_item[code].table[k] = "Low Price Outlier" <=> below
                        /\ df_item[code].table[k] = "High Price Outlier" <=> above
                        /\ df_item[code].table[k] = "Normal" <=> (~below /\ ~above)
            /\ outliers_df.ran =>
                \A i \in RowsOfItem(code) :
                    outliers_df.table[i] <=>
                        (\/ RLess(<<price_df[i].Price, 1>>, ClaimLower(g))
                         \/ RLess(ClaimUpper(g), <<price_df[i].Price, 1>>))

\* Both classifiers have run on a group of 4 values that has one value on a
\* bound (not flagged) or one value outside the bounds (flagged).
C6_Witness ==
    /\ outliers_df.ran
    /\ \E code \in ItemCodes :
        LET g == GroupSeries(price_df, code)
        IN  /\ Len(g) >= 4
            /\ df_item[code].ran
            /\ \E k \in DOMAIN g : REq(<<g[k], 1>>, ClaimUpper(g)) \/ REq(<<g[k], 1>>, ClaimLower(g))
            /\ RLess(LinearQuartile(g, 1), LinearQuartile(g, 3))

\* C7: for a group of 1, 2 or 3 values, and for an empty selection, the
\* classifier returns (one flag per value) and flags no value.
C7_SmallGroupsNeverFlagged ==
    \A code \in ItemCodes :
        LET g == GroupSeries(price_df, code)
        IN  Len(g) <= 3 =>
            /\ df_item[code].ran =>
                /\ DOMAIN df_item[code].table = DOMAIN g
                /\ \A k \in DOMAIN g : df_item[code].table[k] = "Normal"
            /\ outliers_df.ran =>
                /\ DOMAIN outliers_df.table = DOMAIN price_df
                /\ \A i \in RowsOfItem(code) : ~outliers_df.table[i]

\* Both classifiers have run where one item has 3 values that are not all
\* equal and the other item has no row at all (the empty selection).
C7_Witness ==
    /\ outliers_df.ran
    /\ \E code, none \in ItemCodes :
        LET g == GroupSeries(price_df, code)
        IN  /\ Len(g) = 3 /\ Cardinality(Range(g)) >= 2
            /\ df_item[code].ran
            /\ RowsOfItem(none) = {}
            /\ df_item[none].ran

\* C8: when Q1 = Q3 (IQR = 0) both bounds equal that quartile and every value
\* different from it is flagged; for the unit prices [10,10,10,10,100] the
\* quartiles are 10, the 100 is flagged (high) and no 10 is.
C8_DegenerateIQR ==
    /\ \A code \in ItemCodes :
        LET g  == GroupSeries(price_df, code)
            Q1 == quantile(g, 1)
            Q3 == quantile(g, 3)
        IN  (Len(g) >= 1 /\ REq(LinearQuartile(g, 1), LinearQuartile(g, 3))) =>
            /\ REq(lower_bound(Q1, Q3), LinearQuartile(g, 1))
            /\ REq(upper_bound(Q1, Q3), LinearQuartile(g, 1))
            /\ df_item[code].ran =>
                \A k \in DOMAIN g :
                    df_item[code].table[k] # "Normal" <=> ~REq(<<g[k], 1>>, LinearQuartile(g, 1))
            /\ outliers_df.ran =>
                \A i \in RowsOfItem(code) :
                    outliers_df.table[i] <=> ~REq(<<price_df[i].Price, 1>>, LinearQuartile(g, 1))
    /\ price_df = DegenerateGroup =>
        /\ REq(quantile(GroupSeries(price_df, 1), 1), <<10, 1>>)
        /\ REq(quantile(GroupSeries(price_df, 1), 3), <<10, 1>>)
        /\ df_item[1].ran =>
            df_item[1].table = <<"Normal", "Normal", "Normal", "Normal", "High Price Outlier">>
        /\ outliers_df.ran => outliers_df.table = <<FALSE, FALSE, FALSE, FALSE, TRUE>>

\* Both classifiers have run on [10,10,10,10,100].
C8_Witness ==
    /\ price_df = DegenerateGroup
    /\ df_item[1].ran
    /\ outliers_df.ran
    /\ outliers_df.table[5]

(***************************************************************************)
(* Price index: claims C9 - C10                                            *)
(***************************************************************************)
CurrenciesIndexed == {u \in CurrencyUnits : price_index[u].ran}

\* The claims' own reading of the table: the target supplier's records are
\* those of BIDCO AFRICA LIMITED, every other record is a competitor's.
TargetKeys == {pi_df[i].Key : i \in {j \in DOMAIN pi_df : pi_df[j].Supplier = BidcoAfrica}}
CompetitorKeys == {pi_df[i].Key : i \in {j \in DOMAIN pi_df : pi_df[j].Supplier # BidcoAfrica}}

\* C9: build_price_index returns exactly one row for each (store,
\* sub-department, section) that occurs among the target records and among the
\* competitor records, and no row for any other key: target-only keys are
\* dropped, competitor-only keys never appear.
C9_OneRowPerSharedKey ==
    \A u \in CurrenciesIndexed :
        \A key \in Range(GroupKeys) :
            Cardinality({k \in DOMAIN price_index[u].table : price_index[u].table[k].Key = key})
                = IF key \in TargetKeys \cap CompetitorKeys THEN 1 ELSE 0

\* A table with a shared key (kept) and a target-only key (dropped) went
\* through build_price_index.
C9_Witness ==
    /\ price_index[1].ran
    /\ TargetKeys \cap CompetitorKeys # {}
    /\ TargetKeys \ CompetitorKeys # {}
    /\ Len(price_index[1].table) = 1

CurrenciesPriced == {u \in CurrencyUnits : final[u].ran}

\* C10: the price index is scale-invariant.  With every unit price of the
\* table (target and competitor records alike) multiplied by the same
\* positive factor, build_price_index returns the same groups with the same
\* Price_Index, and run_pricing_pipeline gives every section the same
\* Price_Index.
C10_ScaleInvariant ==
    /\ \A u, v \in CurrenciesIndexed :
        /\ Len(price_index[u].table) = Len(price_index[v].table)
        /\ \A k \in DOMAIN price_index[u].table :
            /\ price_index[u].table[k].Key = price_index[v].table[k].Key
            /\ price_index[u].table[k].Price_Index = price_index[v].table[k].Price_Index
    /\ \A u, v \in CurrenciesPriced :
        /\ final[u].raised = final[v].raised
        /\ {r.Section : r \in Range(final[u].table)} = {r.Section : r \in Range(final[v].table)}
        /\ \A r \in Range(final[u].table) :
            \A q \in Range(final[v].table) :
                r.Section = q.Section => r.Price_Index = q.Price_Index

\* Both functions ran on the table in KSh and on the table in cents, and
\* each found the index 0.95 for a group.
C10_Witness ==
    /\ CurrenciesIndexed = CurrencyUnits
    /\ CurrenciesPriced = CurrencyUnits
    /\ \E r \in Range(price_index[100].table) : r.Price_Index = <<950, 1000>>
    /\ \E r \in Range(final[100].table) : r.Price_Index = <<950, 1000>>

(***************************************************************************)
(* Action recommender: claims C11 - C12                                    *)
(***************************************************************************)
\* The claims' own reading of a row: thousandths of the index, tenths of the
\* discount.
IdxThousandths == action_row.Price_Index[1]
DiscTenths == action_row.Current_Discount[1]
IdxDefined == action_row.Price_Index[2] # 0

\* The rules of C11 in their order: the first one that matches decides.
FirstMatchingRule ==
    IF IdxThousandths < 980 /\ DiscTenths > 100 THEN "Too cheap + deep"
    ELSE IF IdxThousandths < 980 THEN "Too cheap"
    ELSE IF IdxThousandths > 1050 /\ DiscTenths > 100 THEN "Too expensive + deep"
    ELSE IF DiscTenths > 120 THEN "Too discounted"
    ELSE IF DiscTenths < 50 /\ IdxThousandths > 1020 THEN "Premium gold"
    ELSE "Balanced"

\* What each outcome recommends.
ActionOf(status) ==
    CASE status = "Too cheap + deep"     -> "Raise to 9% off"
      [] status = "Too cheap"            -> "Raise price"
      [] status = "Too expensive + deep" -> "Cut discount"
      [] status = "Too discounted"       -> "Reduce to 9%"
      [] status = "Premium gold"         -> "Keep - winning"
      [] status = "Balanced"             -> "Monitor"

\* C11: for a defined price index and discount, get_action returns the
\* outcome of the first matching rule in the order (idx < 0.98 and d > 10)
\* raise and cut, (idx < 0.98) raise, (idx > 1.05 and d > 10) cut discount,
\* (d > 12) reduce, (d < 5 and idx > 1.02) keep, otherwise monitor.  So
\* idx < 0.98 with d > 12 is never 'too discounted', and idx = 0.950 with
\* d = 12 gets the raise of the first rule.
C11_FirstMatchingRule ==
    (status_action.ran /\ IdxDefined) =>
        /\ status_action.table[1] = FirstMatchingRule
        /\ status_action.table[2][1] = ActionOf(FirstMatchingRule)
        /\ (IdxThousandths < 980 /\ DiscTenths > 120) => status_action.table[1] # "Too discounted"
        /\ (IdxThousandths = 950 /\ DiscTenths = 120) =>
            status_action.table = <<"Too cheap + deep", <<"Raise to 9% off", action_row.Weekly_Gain_KSh>>>>

\* get_action ran on idx = 0.950 with d = 12.1, where the first rule and the
\* discount-only rule both match.
C11_Witness ==
    /\ status_action.ran
    /\ action_row.Price_Index = <<950, 1000>>
    /\ action_row.Current_Discount = <<121, 10>>
    /\ status_action.table[1] = "Too cheap + deep"

\* C12: with an undefined price index get_action classifies by discount
\* alone: d > 12 too discounted / reduce, d < 5 keep, else monitor; rows with
\* the same discount get the same status and no index-based outcome occurs.
C12_DiscountOnlyFallback ==
    (status_action.ran /\ ~IdxDefined) =>
        /\ DiscTenths > 120 =>
            status_action.table = <<"Too discounted", <<"Reduce to 9% off", action_row.Weekly_Gain_KSh>>>>
        /\ DiscTenths < 50 => status_action.table = <<"Premium", <<"Keep - protect margin">>>>
        /\ (DiscTenths >= 50 /\ DiscTenths <= 120) =>
            status_action.table = <<"Balanced", <<"Monitor">>>>
        /\ status_action.table[1] \in {"Too discounted", "Premium", "Balanced"}

\* get_action ran on a row without a price index and a discount under 5%.
C12_Witness ==
    /\ status_action.ran
    /\ action_row.Price_Index = NaN
    /\ action_row.Current_Discount = <<49, 10>>
    /\ status_action.table[1] = "Premium"

(***************************************************************************)
(* Pricing pipeline: claims C13, C19                                       *)
(***************************************************************************)
\* The claims' own reading of the sales table: the target rows and the
\* competitor rows of a section, and the section's totals.
TargetRowsOf(section) ==
    {i \in DOMAIN full_df : full_df[i].Supplier = BidcoAfrica /\ full_df[i].Section = section}
CompetitorRowsOf(section) ==
    {i \in DOMAIN full_df : full_df[i].Supplier # BidcoAfrica /\ full_df[i].Section = section}
TargetSections == {full_df[i].Section : i \in {j \in DOMAIN full_df : full_df[j].Supplier = BidcoAfrica}}

RECURSIVE SumOver(_, _)
\* The sum of f[i] over the rows i of a set.
SumOver(rows, f) ==
    IF rows = {} THEN 0
    ELSE LET i == CHOOSE j \in rows : TRUE
         IN  f[i] + SumOver(rows \ {i}, f)

Quantities == [i \in DOMAIN full_df |-> full_df[i].Quantity]
Revenues == [i \in DOMAIN full_df |-> full_df[i].TotalSales[1]]
ListValues == [i \in DOMAIN full_df |-> full_df[i].RRP[1] * full_df[i].Quantity]

SameFloat(a, b) ==
    IF a[2] = 0 \/ b[2] = 0
    THEN a[2] = 0 /\ b[2] = 0 /\ ((a[1] > 0) = (b[1] > 0)) /\ ((a[1] < 0) = (b[1] < 0))
    ELSE REq(a, b)

\* The competitor average price of a section as the claims read it: the
\* competitor sales over the competitor quantity, the records of no quantity
\* (no unit price) left out; defined when there is quantity.
CompetitorSales(section) ==
    SumOver({i \in CompetitorRowsOf(section) : full_df[i].Quantity # 0}, Revenues)
CompetitorQuantity(section) == SumOver(CompetitorRowsOf(section), Quantities)
CompetitorPriceUsable(section) ==
    /\ full_data_path = "csv"
    /\ CompetitorRowsOf(section) # {}
    /\ CompetitorQuantity(section) > 0
    /\ CompetitorSales(section) > 0

Statuses ==
    {"Too cheap + deep", "Too cheap", "Too expensive + deep", "Too discounted",
     "Premium gold", "Premium", "Balanced"}

\* What C19 says of a call that has sections to report: it does not raise,
\* it emits one row with a status and an action for every section, and the
\* row's Price_Index is the target price over the competitor price rounded
\* to 3 decimals when there is a usable competitor price and null otherwise.
SectionRowsEmitted ==
    /\ ~action_df.raised
    /\ \A section \in TargetSections :
        \E k \in DOMAIN action_df.table :
            LET r == action_df.table[k]
            IN  /\ r.Section = section
                /\ \A j \in DOMAIN action_df.table : action_df.table[j].Section = section => j = k
                /\ r.Status \in Statuses
                /\ Len(r.Action) >= 1
                /\ IF CompetitorPriceUsable(section)
                   THEN SameFloat(r.Price_Index,
                            RRound(RDiv(RDiv(<<SumOver(TargetRowsOf(section), Revenues), 1>>,
                                             <<SumOver(TargetRowsOf(section), Quantities), 1>>),
                                        <<CompetitorSales(section), CompetitorQuantity(section)>>),
                                   1000))
                   ELSE IsNaN(r.Price_Index)

\* C19: in run_pricing_pipeline the Price_Index of a section is null when
\* the section has no competitor rows, the competitor dataset cannot be used,
\* or the competitor average price is zero, negative or undefined; in these
\* cases and with a total quantity of zero the pipeline does not raise and
\* emits the section's row with a status and an action; otherwise
\* Price_Index is the target price over the competitor price, rounded to 3
\* decimals.
C19_UndefinedIndexNotFatal ==
    (action_df.ran /\ TargetSections # {}) => SectionRowsEmitted

\* The same with a file at full_data_path (readable or not as a sales
\* table): the part of C19 that the code keeps.
C19_WithFilePresent ==
    (action_df.ran /\ TargetSections # {} /\ full_data_path # "missing") => SectionRowsEmitted

(***************************************************************************)
(* Data health score: claims C14 - C16                                     *)
(***************************************************************************)
InZeroToHundred(a) == RLeq(<<0, 1>>, a) /\ RLeq(a, <<100, 1>>)

\* C14: every store's Data_Health_Score lies in [0, 100], and so does the
\* overall score.
C14_ScoresWithinRange ==
    health_report.ran =>
        /\ \A k \in DOMAIN health_report.table : InZeroToHundred(health_report.table[k])
        /\ InZeroToHundred(health_report.overall_score)

\* The same for the stores that have a row with an Item_Code, and for the
\* overall score of a table that has such a store.
C14_WithItemCodes ==
    health_report.ran =>
        /\ \A k \in DOMAIN store_health :
            store_health[k].item_missing < store_health[k].size =>
                InZeroToHundred(health_report.table[k])
        /\ (\E k \in DOMAIN store_health : store_health[k].item_missing < store_health[k].size)
               => InZeroToHundred(health_report.overall_score)

\* The claims' own reading of a store: a rate is zero when its count is.
AllRatesZero(c) ==
    /\ c.negative_rows = 0
    /\ c.missing_rrp = 0
    /\ c.outlier_count = 0
    /\ c.item_missing + c.missing_rrp + c.other_missing = 0
FlaggedUnreliable(c) ==
    c.outlier_count * 100 > 10 * (c.size - c.item_missing - c.missing_rrp)

\* C15: a store's Data_Health_Score is 100 if and only if its negative-value
\* rate, missing-RRP rate, outlier rate and missing-cell rate are all zero
\* and the store is not flagged unreliable.
C15_PerfectScoreIffClean ==
    health_report.ran =>
        \A k \in DOMAIN store_health :
            REq(health_report.table[k], <<100, 1>>)
                <=> (AllRatesZero(store_health[k]) /\ ~FlaggedUnreliable(store_health[k]))

MeanQuantity(rows, on_promo) ==
    LET Picked(r) == r.Supplier = BidcoAfrica /\ r.On_Promo = on_promo
        picked == SelectSeq(rows, Picked)
    IN  RMean([k \in DOMAIN picked |-> <<picked[k].Quantity, 1>>])

\* (mean on-promo quantity / mean off-promo quantity - 1) * 100, and 0 when
\* the off-promo baseline is absent or zero.
GuardedUplift(rows) ==
    LET promo_mean == MeanQuantity(rows, TRUE)
        baseline   == MeanQuantity(rows, FALSE)
    IN  IF IsNaN(baseline) \/ baseline[1] = 0 THEN <<0, 1>>
        ELSE RSub(RMul(RDiv(promo_mean, baseline), <<100, 1>>), <<100, 1>>)

RowsOfStoreSection(key) ==
    LET Picked(r) == r.Store = key[1] /\ r.Section = key[2]
    IN  SelectSeq(promo_df, Picked)

RowsOfSection(section) ==
    LET Picked(r) == r.Section = section
    IN  SelectSeq(promo_df, Picked)

\* C17: the uplift reported for a group is (mean on-promo quantity / mean
\* off-promo quantity - 1) * 100, and exactly 0 when the group's off-promo
\* baseline is absent or zero: for the filled uplift of every row of
\* calculate_bidco_store_section_uplift and for the uplift of every row of
\* calculate_bidco_promo_uplift whose section has an on-promo record.
C17_UpliftGuarded ==
    /\ promo_analysis.ran =>
         \A k \in DOMAIN promo_analysis.table :
            LET r == promo_analysis.table[k]
            IN  SameFloat(r.Promo_Uplift_Pct_Fill, GuardedUplift(RowsOfStoreSection(r.Key)))
    /\ section_units_sorted.ran =>
         \A k \in DOMAIN section_units_sorted.table :
            LET r == section_units_sorted.table[k]
            IN  ~IsNaN(MeanQuantity(RowsOfSection(r.Section), TRUE)) =>
                    SameFloat(r.Promo_Uplift_Pct, GuardedUplift(RowsOfSection(r.Section)))

(***************************************************************************)
(* Store action plan: claim C18                                            *)
(***************************************************************************)
\* C18: generate_bidco_pricing_strategy never raises; when the table is
\* empty or every Avg_Price_Index is undefined it returns no plan, and
\* otherwise it returns a table with one action row for every store of
\* store_summary, the stores with an undefined index or an index of exactly
\* 1.0 included.
C18_MissingCompetitorNotFatal ==
    strategy.ran =>
        /\ ~strategy.raised
        /\ IF \A k \in DOMAIN store_summary : IsNaN(store_summary[k].Avg_Price_Index)
           THEN strategy.returned = "None"
           ELSE /\ strategy.returned = "table"
                /\ Len(strategy.table) = Len(store_summary)
                /\ \A k \in DOMAIN store_summary :
                      \E j \in DOMAIN strategy.table :
                          strategy.table[j].Store = store_summary[k].Store

(***************************************************************************)
(* The caller's table: claim C20                                           *)
(***************************************************************************)
\* C20: every operation works on its own copy: a call of detect_promotions,
\* build_price_index, run_pricing_pipeline, data_health_pipeline,
\* calculate_bidco_promo_uplift, calculate_bidco_store_section_uplift,
\* visualize_bidco_promo_uplift or generate_bidco_pricing_strategy, whether
\* it returns or raises, leaves the table the caller passed in with the
\* columns and the values it had.  (A change of currency is the caller's
\* own rescaling of pi_df, and the table handed to
\* visualize_bidco_promo_uplift exists once calculate_bidco_promo_uplift
\* has returned it.)
C20_CallerTableUnchanged ==
    [][/\ df' = df
       /\ currency' = currency => pi_df' = pi_df
       /\ full_df' = full_df
       /\ store_health' = store_health
       /\ promo_df' = promo_df
       /\ section_units_sorted.ran => section_units_sorted' = section_units_sorted
       /\ store_summary' = store_summary]_vars

(***************************************************************************)
(* Section price index against the builder's: claim C21                    *)
(***************************************************************************)
\* The target records and the competitor records of a section of pi_df.
SectionTargets(section) ==
    {i \in DOMAIN pi_df : pi_df[i].Supplier = BidcoAfrica /\ pi_df[i].Section = section}
SectionCompetitors(section) ==
    {i \in DOMAIN pi_df : pi_df[i].Supplier # BidcoAfrica /\ pi_df[i].Section = section}

RECURSIVE RSumOver(_, _)
\* The sum of the floats f[i] over the rows i of a set.
RSumOver(rows, f) ==
    IF rows = {} THEN <<0, 1>>
    ELSE LET i == CHOOSE j \in rows : TRUE
         IN  RNorm(RAdd(f[i], RSumOver(rows \ {i}, f)))

UnitPrices == [i \in DOMAIN pi_df |-> pi_df[i].Unit_Price]
TotalSalesOf == [i \in DOMAIN pi_df |-> pi_df[i].TotalSales]
QuantityOf == [i \in DOMAIN pi_df |-> <<pi_df[i].Quantity, 1>>]

\* The builder's method on the records of a section: the mean of the
\* target unit prices over the mean of the competitor unit prices, rounded
\* to 3 decimals; undefined without a competitor record.
MeanOfUnitPrices(rows) ==
    IF rows = {} THEN NaN ELSE RDiv(RSumOver(rows, UnitPrices), <<Cardinality(rows), 1>>)
BuilderIndexOf(section) ==
    RRound(RDiv(MeanOfUnitPrices(SectionTargets(section)),
                MeanOfUnitPrices(SectionCompetitors(section))), 1000)

\* The price of the units sold: total sales over total quantity.
PricePerUnitSold(rows) ==
    IF rows = {} THEN NaN ELSE RDiv(RSumOver(rows, TotalSalesOf), RSumOver(rows, QuantityOf))
QuantityWeightedIndexOf(section) ==
    IF RLess(<<0, 1>>, PricePerUnitSold(SectionCompetitors(section)))
    THEN RRound(RDiv(PricePerUnitSold(SectionTargets(section)),
                     PricePerUnitSold(SectionCompetitors(section))), 1000)
    ELSE NaN

\* C21 as stated: the Price_Index of every row run_pricing_pipeline returns
\* is the value the builder's method yields for the records of the row's
\* section: mean target unit price / mean competitor unit price, rounded to
\* 3 decimals.
C21_SectionIndexAsBuilder ==
    final[currency].ran =>
        \A k \in DOMAIN final[currency].table :
            LET r == final[currency].table[k]
            IN  SameFloat(r.Price_Index, BuilderIndexOf(r.Section))

\* C21 amended: the Price_Index of every row run_pricing_pipeline returns is
\* the target's total sales per unit sold over the competitors' total sales
\* per unit sold in the row's section (unit prices weighted by quantity),
\* rounded to 3 decimals, and undefined without a competitor record or
\* with a competitor price that is not positive.
C21_SectionIndexQuantityWeighted ==
    final[currency].ran =>
        \A k \in DOMAIN final[currency].table :
            LET r == final[currency].table[k]
            IN  SameFloat(r.Price_Index, QuantityWeightedIndexOf(r.Section))

\* The pipeline returned a section whose index is defined, is no ratio of
\* 3 decimals before rounding, and differs from the builder's value.
C21_Witness ==
    /\ final[currency].ran
    /\ \E k \in DOMAIN final[currency].table :
        LET r == final[currency].table[k]
        IN  /\ ~IsNaN(r.Price_Index)
            /\ ~SameFloat(r.Price_Index, BuilderIndexOf(r.Section))
            /\ ~REq(r.Price_Index,
                    RDiv(PricePerUnitSold(SectionTargets(r.Section)),
                         PricePerUnitSold(SectionCompetitors(r.Section))))

(***************************************************************************)
(* Negative-value penalty: claim C22                                       *)
(***************************************************************************)
\* C22: for every store with counted rows, the percentage that the
\* negative-value penalty (weight 0.20) is taken of is the percentage of
\* the store's rows with a negative Quantity, Total Sales or RRP, the rows
\* reported in negative_rows: a row with a negative Total Sales or RRP and
\* a Quantity that is not negative counts.
C22_NegativePenaltyAnyColumn ==
    health_report.ran =>
        \A k \in DOMAIN store_health :
            store_health[k].item_missing < store_health[k].size =>
                REq(health_report.pct_negative[k],
                    <<100 * health_report.negative_rows[k],
                      store_health[k].size - store_health[k].item_missing>>)

(***************************************************************************)
(* Week grouping: claim C23                                                *)
(***************************************************************************)
\* The Sunday that begins the Sunday-to-Saturday span of a date, as a day
\* number counted from 1 January 2024 (2024 has 366 days).
DayNumber(date) == (date.year - 2024) * 366 + date.yday
SpanSunday(date) == DayNumber(date) - date.wday
SameSpan(a, b) == SpanSunday(a) = SpanSunday(b)

\* C23: two dates of the same calendar year get the same Year_Week key
\* exactly when they lie in the same Sunday-to-Saturday span, and two dates
\* of one span that crosses 1 January get different keys, so that their
\* discounted days are counted in separate groups (neither row reaches the
\* two days of the default min_days); the days of one key are counted
\* together.
C23_WeeksStartOnSunday ==
    week_promo.ran =>
        LET a    == week_df[1].Date
            b    == week_df[2].Date
            keyA == week_promo.table[1].Year_Week
            keyB == week_promo.table[2].Year_Week
        IN  /\ a.year = b.year => ((keyA = keyB) <=> SameSpan(a, b))
            /\ (SameSpan(a, b) /\ a.year # b.year) =>
                   /\ keyA # keyB
                   /\ ~week_promo.table[1].On_Promo
                   /\ ~week_promo.table[2].On_Promo
            /\ keyA = keyB <=> (week_promo.table[1].On_Promo /\ week_promo.table[2].On_Promo)

\* Tuesday 31 December 2024 and Wednesday 1 January 2025, two days of one
\* span, went through detect_promotions and got the keys 2024-52 and
\* 2025-00.
C23_Witness ==
    /\ week_promo.ran
    /\ week_df[1].Date = MkDate(3)
    /\ week_df[2].Date = MkDate(4)
    /\ SameSpan(week_df[1].Date, week_df[2].Date)
    /\ week_promo.table[1].Year_Week = <<2024, 52>>
    /\ week_promo.table[2].Year_Week = <<2025, 0>>

(***************************************************************************)
(* Outlier classification, order and other groups: claim C24               *)
(***************************************************************************)
\* How many rows of an item have a price of at most v, and how many have a
\* smaller price: counts over the multiset of the group's values, whatever
\* the order of the rows and whatever the other groups hold.
CountAtMost(code, v) ==
    Cardinality({j \in DOMAIN price_df :
                    price_df[j].Item_Code = code /\ price_df[j].Price <= v})
CountBelow(code, v) ==
    Cardinality({j \in DOMAIN price_df :
                    price_df[j].Item_Code = code /\ price_df[j].Price < v})
AllPrices == {price_df[j].Price : j \in DOMAIN price_df}

\* The r-th smallest value of the group's multiset (r from 1).
OrderStatistic(code, r) ==
    CHOOSE v \in AllPrices : CountBelow(code, v) < r /\ r <= CountAtMost(code, v)

\* Four times the k-th quartile of the group's multiset, by linear
\* interpolation between the order statistics around position (n - 1) * k / 4.
QuartileTimes4(code, k) ==
    LET n    == Cardinality({j \in DOMAIN price_df : price_df[j].Item_Code = code})
        pos4 == (n - 1) * k
        lo   == (pos4 \div 4) + 1
        hi   == IF lo < n THEN lo + 1 ELSE lo
        slo  == OrderStatistic(code, lo)
        shi  == OrderStatistic(code, hi)
    IN  4 * slo + (pos4 % 4) * (shi - slo)

\* Whether a value lies outside [Q1 - 1.5 * IQR, Q3 + 1.5 * IQR] (all sides
\* times 8), the quartiles given times 4.
OutsideFences(x, q1, q3) ==
    \/ 8 * x < 2 * q1 - 3 * (q3 - q1)
    \/ 8 * x > 2 * q3 + 3 * (q3 - q1)

\* C24: the flag the classifier gives a record is a function of the
\* record's own value and of the multiset of values of its group alone: it
\* is the same for every order of the rows, for every run, and whatever the
\* records of the other groups are.
C24_FlagFromValueAndGroupMultiset ==
    outliers_df.ran =>
        \A code \in {price_df[j].Item_Code : j \in DOMAIN price_df} :
            LET q1 == QuartileTimes4(code, 1)
                q3 == QuartileTimes4(code, 3)
            IN  \A i \in DOMAIN price_df :
                    price_df[i].Item_Code = code =>
                        (outliers_df.table[i] <=> OutsideFences(price_df[i].Price, q1, q3))

\* The classifier flagged a record of a table in which the rows of an item
\* are not in ascending order of price.
C24_Witness ==
    /\ outliers_df.ran
    /\ \E i \in DOMAIN price_df : outliers_df.table[i]
    /\ \E i, j \in DOMAIN price_df :
        /\ i < j
        /\ price_df[i].Item_Code = price_df[j].Item_Code
        /\ price_df[i].Price > price_df[j].Price

(***************************************************************************)
(* KPI dashboard: claim C25                                                *)
(***************************************************************************)
EightKeys ==
    {"total_revenue_ksh", "units_sold", "avg_discount_pct", "price_index",
     "promo_coverage_pct", "promo_uplift_pct", "weekly_gain_ksh", "data_health"}

JsonBodies == {kpi_responses[k].body : k \in {j \in DOMAIN kpi_responses :
                                                kpi_responses[j].path = "/kpis/json"}}

UrgencyRank(text) ==
    IF "**Reduce" \in Range(text) THEN 1
    ELSE IF "**Cut" \in Range(text) THEN 2
    ELSE IF "**Raise" \in Range(text) THEN 3
    ELSE IF "**Keep" \in Range(text) THEN 4
    ELSE 5

\* C26: the table generate_bidco_pricing_strategy returns is sorted by
\* urgency: 'Reduce promo' rows, then 'Cut discount', then 'Raise price',
\* then 'Keep', with 'Balanced' rows last.
C26_SortedByUrgency ==
    (strategy.ran /\ strategy.returned = "table") =>
        \A i, j \in DOMAIN strategy.table :
            i < j => UrgencyRank(strategy.table[i].Action) <= UrgencyRank(strategy.table[j].Action)

\* The advice of an action text: the words after the arrow, or the words
\* after the store when there is no arrow.
Advice(text) ==
    IF Arrow \in Range(text)
    THEN SubSeq(text, 1 + CHOOSE k \in DOMAIN text : text[k] = Arrow, Len(text))
    ELSE SubSeq(text, 4, Len(text))

\* C27: every store of a call that reaches get_action gets one action, by
\* the index against 1.0 and the discount against 8: below and above 8
\* 'Reduce promo', above and above 8 'Cut discount', below and at most 8
\* 'Raise price +5%', above and at most 8 'Keep'; 'Balanced - monitor' only
\* for an index of exactly 1.0 or an undefined index or discount.
C27_StoreActionRules ==
    (strategy.ran /\ strategy.returned # "None") =>
        \A k \in DOMAIN store_summary :
            LET idx    == store_summary[k].Avg_Price_Index
                disc   == store_summary[k].Avg_Discount
                below  == ~IsNaN(idx) /\ idx[1] < idx[2]
                above  == ~IsNaN(idx) /\ idx[1] > idx[2]
                deep   == ~IsNaN(disc) /\ disc[1] > 8 * disc[2]
                low    == ~IsNaN(disc) /\ disc[1] <= 8 * disc[2]
                advice == Advice(store_summary[k].Action)
            IN  /\ (below /\ deep) => advice = <<"**Reduce", "promo**">>
                /\ (above /\ deep) => advice = <<"**Cut", "discount**">>
                /\ (below /\ low) => advice = <<"**Raise", "price", "+5%**">>
                /\ (above /\ low) => advice = <<"**Keep", "-", "winning!**">>
                /\ advice = <<"Balanced", "-", "monitor">>
                       <=> (IsNaN(idx) \/ IsNaN(disc) \/ idx[1] = idx[2])
                /\ SubSeq(store_summary[k].Action, 1, 3) = Bold(store_summary[k].Store)

\* A call gave a store priced below the competitors at a discount of
\* exactly 8 the advice to raise its price, and a store with an undefined
\* discount the balanced action.
C27_Witness ==
    /\ strategy.ran
    /\ \E k, j \in DOMAIN store_summary :
        /\ store_summary[k].Avg_Price_Index = <<950, 1000>>
        /\ store_summary[k].Avg_Discount = <<8, 1>>
        /\ "**Raise" \in Range(store_summary[k].Action)
        /\ IsNaN(store_summary[j].Avg_Discount)
        /\ ~IsNaN(store_summary[j].Avg_Price_Index)
        /\ "Balanced" \in Range(store_summary[j].Action)

(***************************************************************************)
(* The target and competitor records of the price index: claim C28         *)
(***************************************************************************)
\* A record is a target record when it has a supplier name that contains
\* "bidco" in any mix of cases.
IsTargetRecord(r) ==
    /\ r.Supplier # Missing
    /\ \E o \in 0..(Len(r.Supplier.name) - 5) :
           /\ r.Supplier.name[o + 1] \in {"B", "b"}
           /\ r.Supplier.name[o + 2] \in {"I", "i"}
           /\ r.Supplier.name[o + 3] \in {"D", "d"}
           /\ r.Supplier.name[o + 4] \in {"C", "c"}
           /\ r.Supplier.name[o + 5] \in {"O", "o"}

\* The Unit_Price of the records of a key that are target records (side
\* TRUE) or not (side FALSE), in table order.
SidePrices(t, key, side) ==
    LET OnSide(r) == r.Key = key /\ (IsTargetRecord(r) <=> side)
        rows == SelectSeq(t, OnSide)
    IN  [k \in DOMAIN rows |-> rows[k].Unit_Price]

\* C28: the records split into target records and competitor records, each
\* record on one side only and a record without supplier on the competitor
\* side: the table has one row for each key with records on both sides,
\* its target average is the mean over the key's target records and its
\* competitor average the mean over all the key's other records.
C28_TargetAndCompetitorsPartition ==
    \A u \in CurrencyUnits :
        (price_index[u].ran /\ currency = u) =>
            LET t    == price_index[u].table
                both == {key \in Range(GroupKeys) :
                            SidePrices(pi_df, key, TRUE) # <<>> /\ SidePrices(pi_df, key, FALSE) # <<>>}
            IN  /\ {t[k].Key : k \in DOMAIN t} = both
                /\ Len(t) = Cardinality(both)
                /\ \A k \in DOMAIN t :
                       /\ SameFloat(t[k].Target_Avg_Price, RMean(SidePrices(pi_df, t[k].Key, TRUE)))
                       /\ SameFloat(t[k].Comp_Avg_Price, RMean(SidePrices(pi_df, t[k].Key, FALSE)))
                /\ Len(df_target(pi_df)) + Len(df_comp(pi_df)) = Len(pi_df)

\* A key with one target record at 95, one named competitor at 100 and one
\* record without supplier at 95: the competitor average is 97.5.
C28_Witness ==
    /\ price_index[1].ran /\ currency = 1
    /\ Len(pi_df) = 3
    /\ \E i, j, k \in DOMAIN pi_df :
           /\ pi_df[i].Supplier = BidcoAfrica /\ pi_df[i].Unit_Price = <<95, 1>>
           /\ pi_df[j].Supplier = Unilever /\ pi_df[j].Unit_Price = <<200, 2>>
           /\ pi_df[k].Supplier = Missing /\ pi_df[k].Unit_Price = <<95, 1>>
           /\ pi_df[i].Key = pi_df[j].Key /\ pi_df[j].Key = pi_df[k].Key
    /\ Len(price_index[1].table) = 1
    /\ SameFloat(price_index[1].table[1].Comp_Avg_Price, <<195, 2>>)

(***************************************************************************)
(* Units of the section uplift table: claim C29                            *)
(***************************************************************************)
\* The records of promo_df of the target supplier in a section.
TargetRecords(section) ==
    {i \in DOMAIN promo_df :
        promo_df[i].Supplier = BidcoAfrica /\ promo_df[i].Section = section}

\* The total Quantity of a set of records of promo_df.
TotalQuantity(records) ==
    SumOver(records, [i \in DOMAIN promo_df |-> promo_df[i].Quantity])

\* C29: the section table has one row for each section with records of the
\* target supplier; its Promo_Units are the units of the section's records
\* on promotion, its Baseline_Units those of the records off promotion, and
\* the two add up to the section's total Quantity.
C29_UnitsConserved ==
    section_units_sorted.ran =>
        LET t        == section_units_sorted.table
            sections == {promo_df[i].Section : i \in {j \in DOMAIN promo_df : promo_df[j].Supplier = BidcoAfrica}}
        IN  /\ {t[k].Section : k \in DOMAIN t} = sections
            /\ Len(t) = Cardinality(sections)
            /\ \A k \in DOMAIN t :
                   LET records == TargetRecords(t[k].Section)
                   IN  /\ t[k].Promo_Units = TotalQuantity({i \in records : promo_df[i].On_Promo})
                       /\ t[k].Baseline_Units = TotalQuantity({i \in records : ~promo_df[i].On_Promo})
                       /\ t[k].Promo_Units + t[k].Baseline_Units = TotalQuantity(records)

\* A section with three units on promotion and one off: the row has 3 and 1.
C29_Witness ==
    /\ section_units_sorted.ran
    /\ Len(promo_df) = 2
    /\ promo_df[1].Supplier = BidcoAfrica /\ promo_df[2].Supplier = BidcoAfrica
    /\ promo_df[1].Section = promo_df[2].Section
    /\ promo_df[1].On_Promo /\ promo_df[1].Quantity = 3
    /\ ~promo_df[2].On_Promo /\ promo_df[2].Quantity = 1
    /\ Len(section_units_sorted.table) = 1
    /\ section_units_sorted.table[1].Promo_Units = 3
    /\ section_units_sorted.table[1].Baseline_Units = 1

(***************************************************************************)
(* Rows and order of the section action plan: claim C30                    *)
(***************************************************************************)
\* The sales table is inside the data model: every record has Quantity > 0.
QuantitiesPositive == \A i \in DOMAIN full_df : full_df[i].Quantity > 0

\* C30: run_pricing_pipeline returns one row for each Section of the
\* target-supplier records, no section twice, whether or not the section has
\* competitors, and the rows are in non-increasing order of Weekly_Gain_KSh
\* (stated for sales tables whose quantities are all positive).
C30_OneRowPerSectionByGain ==
    (action_df.ran /\ QuantitiesPositive) =>
        LET t == action_df.table
        IN  /\ {t[k].Section : k \in DOMAIN t} = TargetSections
            /\ Len(t) = Cardinality(TargetSections)
            /\ \A i, j \in DOMAIN t :
                   i < j => t[i].Weekly_Gain_KSh >= t[j].Weekly_Gain_KSh

=============================================================================
